---- MODULE Spec2Model ----
(***************************************************************************)
(* Oman students allowance calculator: the rule evaluators (lifetime       *)
(* projection and monthly settlement), the settlement run entry points     *)
(* and the run ledger (runs, allowance records, baggage payments).         *)
(*                                                                         *)
(* Dates are records [y, m, d]; None is the absent date.  USD amounts are  *)
(* exact rationals [n, d] counted in cents (n/d cents); local-currency     *)
(* amounts are whole cents.  With the rates modelled no product falls on   *)
(* a half cent through an inexact fraction, so the 28-digit Decimal        *)
(* context of utils.py quantizes to the same cent as the exact rational.   *)
(***************************************************************************)
EXTENDS Integers, Sequences, FiniteSets, TLC

(* ------------------------------------------------------------------ *)
(* Bounds of the model                                                *)
(* ------------------------------------------------------------------ *)
MaxYear == 2025
MaxSettleYear == 2024
MaxRuns == 2
MaxSessions == 2

(* ------------------------------------------------------------------ *)
(* Enumerations (models.py)                                            *)
(* ------------------------------------------------------------------ *)
IN_STUDY == "In-study"
GRADUATED == "Graduated"
WITHDRAWN == "Withdrawn"
Status == {IN_STUDY, GRADUATED, WITHDRAWN}

BACHELOR == "Bachelor"
MASTER == "Master"
PHD == "PhD"
DegreeLevel == {BACHELOR, MASTER, PHD}

LIVING == "Living"
STUDY == "Study"
BAGGAGE == "ExcessBaggage"
AllowanceType == {LIVING, STUDY, BAGGAGE}

(* ------------------------------------------------------------------ *)
(* Dates and the proration utility (utils.py)                          *)
(* ------------------------------------------------------------------ *)
None == [y |-> 0, m |-> 0, d |-> 0]

Date(y, m, d) == [y |-> y, m |-> m, d |-> d]

DateKey(a) == (a.y * 12 + (a.m - 1)) * 32 + a.d

DateLE(a, b) == DateKey(a) <= DateKey(b)

DateLT(a, b) == DateKey(a) < DateKey(b)

IsLeap(y) == (y % 4 = 0 /\ y % 100 # 0) \/ y % 400 = 0

monthrange(y, m) ==
    IF m = 2 THEN (IF IsLeap(y) THEN 29 ELSE 28)
    ELSE IF m \in {4, 6, 9, 11} THEN 30 ELSE 31

month_start(d) == Date(d.y, d.m, 1)

month_end(d) == Date(d.y, d.m, monthrange(d.y, d.m))

days_in_month_thirty(d) == 30

days_in_month(d) == monthrange(d.y, d.m)

same_month(a, b) == a.y = b.y /\ a.m = b.m

NextMonthStart(cur) ==
    IF cur.m = 12 THEN Date(cur.y + 1, 1, 1) ELSE Date(cur.y, cur.m + 1, 1)

RECURSIVE IterFrom(_, _)
IterFrom(cur, end) ==
    IF DateLE(cur, end) THEN <<cur>> \o IterFrom(NextMonthStart(cur), end)
    ELSE <<>>

iter_month_starts(start, end) == IterFrom(Date(start.y, start.m, 1), end)

(* proration_fraction as the exact fraction [n, d] = days / total_days *)
proration_fraction(entry_date) ==
    [n |-> days_in_month(entry_date) - entry_date.d + 1,
     d |-> days_in_month(entry_date)]

year_month_first(year, month) == Date(year, month, 1)

RECURSIVE RangeSeq(_, _)
RangeSeq(lo, hi) == IF lo > hi THEN <<>> ELSE <<lo>> \o RangeSeq(lo + 1, hi)

date_range_to_years(start, end) == RangeSeq(start.y, end.y)

(* quantize_amount with ROUND_HALF_UP at the 0.01 quantum: the rational  *)
(* n/d cents (non-negative) rounded to whole cents                       *)
quantize_amount_truncating(n, d) == n \div d

quantize_amount(n, d) == (2 * n + d) \div (2 * d)

(* ------------------------------------------------------------------ *)
(* Configuration (config.py)                                           *)
(* ------------------------------------------------------------------ *)
FINAL_ONLY == "final_only"
TWO_STEP == "two_step"
RoundingPolicy == {FINAL_ONLY, TWO_STEP}

LivingBachelorCents == 30000
LivingMasterCents == 35000
LivingPhdCents == 40000
StudyCents == 80000
BaggageCents == 120000
FxRateHundredths == 710
StudyMonthDefault == 10

(* Decimal values are kept as integers over a scale: the USD amounts in   *)
(* cents (the living rates in cents / living_scale), the FX rate as       *)
(* fx_rate_usd_to_cny / fx_scale                                          *)
DefaultConfig ==
    [living_allowance_by_degree |->
         (BACHELOR :> LivingBachelorCents @@ MASTER :> LivingMasterCents
          @@ PHD :> LivingPhdCents),
     study_allowance_usd |-> StudyCents,
     baggage_allowance_usd |-> BaggageCents,
     study_allowance_month |-> StudyMonthDefault,
     issue_study_if_entry_month |-> FALSE,
     issue_study_if_exit_before_oct_entry_year |-> FALSE,
     fx_rate_usd_to_cny |-> FxRateHundredths,
     living_scale |-> 1,
     fx_scale |-> 100,
     rounding_policy |-> FINAL_ONLY]

(* every configuration the config screens can save over the default      *)
(* rates: the two study flags and the rounding policy                    *)
Configs ==
    {[DefaultConfig EXCEPT !.issue_study_if_entry_month = em,
                           !.issue_study_if_exit_before_oct_entry_year = ey,
                           !.rounding_policy = rp] :
        em \in BOOLEAN, ey \in BOOLEAN, rp \in RoundingPolicy}

(* ------------------------------------------------------------------ *)
(* Money conversion (calculations.py, CalculationContext.to_money)     *)
(* ------------------------------------------------------------------ *)
RECURSIVE GCD(_, _)
GCD(a, b) == IF b = 0 THEN a ELSE GCD(b, a % b)

(* quantize_amount(usd * fx_rate): the exact product (n/d) * (fxn/fxd),   *)
(* rounded half-up to whole local cents; the whole parts are multiplied   *)
(* apart so that every intermediate value stays a machine integer         *)
ProductInLowestTerms(n1, d1, fxn, fxd) ==
    (n1 \div d1) * (fxn \div fxd)
    + quantize_amount((n1 \div d1) * (fxn % fxd) * d1 + (n1 % d1) * fxn,
                      d1 * fxd)

ProductOver(n, d, g, fxn, fxd) ==
    ProductInLowestTerms(n \div g, d \div g, fxn, fxd)

(* the largest numerator quantize_amount doubles within a machine integer *)
MaxDirect == 1000000000

quantize_product(n, d, fxn, fxd) ==
    IF n <= MaxDirect \div fxn THEN quantize_amount(n * fxn, d * fxd)
    ELSE IF d = 1 THEN ProductInLowestTerms(n, 1, fxn, fxd)
    ELSE ProductOver(n, d, GCD(n, d), fxn, fxd)

to_money_cny_from_unrounded(config, usd, round_usd) ==
    [usd |-> IF round_usd
             THEN [n |-> quantize_amount(usd.n, usd.d), d |-> 1]
             ELSE usd,
     cny |-> quantize_product(usd.n, usd.d, config.fx_rate_usd_to_cny,
                              config.fx_scale)]

to_money(config, usd, round_usd) ==
    LET usd_q == IF round_usd
                 THEN [n |-> quantize_amount(usd.n, usd.d), d |-> 1]
                 ELSE usd
        cny_q == quantize_product(usd_q.n, usd_q.d,
                                  config.fx_rate_usd_to_cny, config.fx_scale)
    IN  [usd |-> usd_q, cny |-> cny_q]

Whole(cents) == [n |-> cents, d |-> 1]

RatEq(a, b) == a.n * b.d = b.n * a.d

AllowanceRecord(sid, typ, ps, pe, money, rule, meta) ==
    [student_id |-> sid, allowance_type |-> typ, period_start |-> ps,
     period_end |-> pe, amount |-> money, rule_id |-> rule, metadata |-> meta]

SelectType(records, typ) ==
    SelectSeq(records, LAMBDA r : r.allowance_type = typ)

Range(s) == {s[i] : i \in DOMAIN s}

(* ------------------------------------------------------------------ *)
(* Lifetime projection (calculations.py)                               *)
(* ------------------------------------------------------------------ *)
LifetimeExitDateIgnoresGraduation(student, calc_date) == calc_date

LifetimeExitDate(student, calc_date) ==
    IF student.status = IN_STUDY THEN calc_date
    ELSE IF student.graduation_date # None THEN student.graduation_date
    ELSE calc_date

LivingMonthRecord(student, config, ms) ==
    LET monthly_usd == config.living_allowance_by_degree[student.degree_level]
    IN  IF ms.y = student.first_entry_date.y /\ ms.m = student.first_entry_date.m
        THEN LET fraction == proration_fraction(student.first_entry_date)
                 usd == [n |-> monthly_usd * fraction.n,
                         d |-> fraction.d * config.living_scale]
                 round_usd == config.rounding_policy = TWO_STEP
             IN  AllowanceRecord(student.student_id, LIVING, ms, month_end(ms),
                                 to_money(config, usd, round_usd),
                                 "LIVING_ENTRY_PRORATE",
                                 [monthly_usd |-> monthly_usd,
                                  fraction |-> fraction,
                                  entry_date |-> student.first_entry_date])
        ELSE AllowanceRecord(student.student_id, LIVING, ms, month_end(ms),
                             to_money(config,
                                 [n |-> monthly_usd, d |-> config.living_scale],
                                 FALSE),
                             "LIVING_FULL_MONTH",
                             [monthly_usd |-> monthly_usd])

LivingOverMonths(student, config, months) ==
    [i \in 1..Len(months) |-> LivingMonthRecord(student, config, months[i])]

_calculate_living_allowance(student, config, calc_date) ==
    LET entry_month_start == Date(student.first_entry_date.y,
                                  student.first_entry_date.m, 1)
        exit_date == LifetimeExitDate(student, calc_date)
    IN  LivingOverMonths(student, config,
                         iter_month_starts(entry_month_start, exit_date))

StudyQualifiesMonthNoEntryBound(student, config, exit_date, year) ==
    LET target_first == year_month_first(year, config.study_allowance_month)
    IN  IF student.status = IN_STUDY
        THEN DateLE(target_first, exit_date)
        ELSE IF student.status \in {GRADUATED, WITHDRAWN}
                /\ student.graduation_date # None
        THEN DateLE(target_first, student.graduation_date)
        ELSE FALSE

StudyQualifiesMonth(student, config, exit_date, year) ==
    LET target_first == year_month_first(year, config.study_allowance_month)
    IN  IF student.status = IN_STUDY
        THEN DateLE(student.first_entry_date, target_first)
             /\ DateLE(target_first, exit_date)
        ELSE IF student.status \in {GRADUATED, WITHDRAWN}
                /\ student.graduation_date # None
        THEN DateLE(student.first_entry_date, target_first)
             /\ DateLE(target_first, student.graduation_date)
        ELSE FALSE

StudyEntryMonthOverride(student, config, exit_date, year) ==
    /\ config.issue_study_if_entry_month
    /\ student.first_entry_date.y = year
    /\ student.first_entry_date.m = config.study_allowance_month
    /\ DateLE(student.first_entry_date, exit_date)

StudySpecialCaseAnyExit(student, config, exit_date, year) ==
    /\ student.status \in {GRADUATED, WITHDRAWN}
    /\ year = student.first_entry_date.y
    /\ config.issue_study_if_exit_before_oct_entry_year

StudySpecialCase(student, config, exit_date, year) ==
    /\ student.status \in {GRADUATED, WITHDRAWN}
    /\ year = student.first_entry_date.y
    /\ DateLT(exit_date, year_month_first(student.first_entry_date.y,
                                          config.study_allowance_month))
    /\ config.issue_study_if_exit_before_oct_entry_year

StudyYearRecords(student, config, exit_date, year) ==
    LET target_first == year_month_first(year, config.study_allowance_month)
        qualifies_month == StudyQualifiesMonth(student, config, exit_date, year)
        entry_month_override ==
            StudyEntryMonthOverride(student, config, exit_date, year)
        special_case == StudySpecialCase(student, config, exit_date, year)
        rule_id == IF special_case THEN "STUDY_ENTRY_YEAR_OVERRIDE"
                   ELSE IF entry_month_override /\ ~qualifies_month
                   THEN "STUDY_ENTRY_MONTH"
                   ELSE "STUDY_MONTH_IN_STUDY"
    IN  IF qualifies_month \/ entry_month_override \/ special_case
        THEN << AllowanceRecord(student.student_id, STUDY, target_first,
                    target_first,
                    to_money(config, Whole(config.study_allowance_usd), FALSE),
                    rule_id,
                    [year |-> year,
                     qualifies_month |-> qualifies_month,
                     entry_month_override |-> entry_month_override,
                     special_case |-> special_case]) >>
        ELSE <<>>

RECURSIVE StudyOverYears(_, _, _, _)
StudyOverYears(student, config, exit_date, years) ==
    IF years = <<>> THEN <<>>
    ELSE StudyYearRecords(student, config, exit_date, Head(years))
         \o StudyOverYears(student, config, exit_date, Tail(years))

StudyAllowanceToCalcDate(student, config, calc_date) ==
    StudyOverYears(student, config, calc_date,
                   date_range_to_years(student.first_entry_date, calc_date))

_calculate_study_allowance(student, config, calc_date) ==
    LET exit_date == LifetimeExitDate(student, calc_date)
    IN  StudyOverYears(student, config, exit_date,
                       date_range_to_years(student.first_entry_date, exit_date))

_calculate_baggage_allowance(student, config) ==
    IF student.status # GRADUATED THEN <<>>
    ELSE << AllowanceRecord(student.student_id, BAGGAGE,
                student.graduation_date, student.graduation_date,
                to_money(config, Whole(config.baggage_allowance_usd), FALSE),
                "BAGGAGE_ON_GRADUATION",
                [graduation_date |-> student.graduation_date]) >>

calculate_student_allowances(student, config, calc_date) ==
    _calculate_living_allowance(student, config, calc_date)
    \o _calculate_study_allowance(student, config, calc_date)
    \o _calculate_baggage_allowance(student, config)

(* ------------------------------------------------------------------ *)
(* Monthly settlement, desktop evaluator (gui/settlement.py)           *)
(* ------------------------------------------------------------------ *)
add_living(student, settlement_month, config, prorated, metadata, rule_id) ==
    LET monthly_usd == config.living_allowance_by_degree[student.degree_level]
        fraction == IF prorated THEN proration_fraction(student.first_entry_date)
                    ELSE Whole(1)
        usd == [n |-> monthly_usd * fraction.n,
                d |-> fraction.d * config.living_scale]
        round_usd == prorated /\ config.rounding_policy = TWO_STEP
    IN  << AllowanceRecord(student.student_id, LIVING, settlement_month,
               month_end(settlement_month),
               to_money(config, usd, round_usd), rule_id,
               [monthly_usd |-> monthly_usd, fraction |-> fraction,
                withdrawal_toggle |-> metadata]) >>

EntryOrFullAlwaysProrated(student, settlement_month, config) ==
    add_living(student, settlement_month, config, TRUE, FALSE,
               "LIVING_ENTRY_PRORATE")

EntryOrFull(student, settlement_month, config) ==
    IF same_month(settlement_month, month_start(student.first_entry_date))
    THEN add_living(student, settlement_month, config, TRUE, FALSE,
                    "LIVING_ENTRY_PRORATE")
    ELSE add_living(student, settlement_month, config, FALSE, FALSE,
                    "LIVING_FULL_MONTH")

GuiLivingPaysWithdrawalMonth(student, settlement_month, config, pay_withdrawal_living) ==
    LET entry_month == month_start(student.first_entry_date)
    IN  IF ~DateLE(entry_month, settlement_month) THEN <<>>
        ELSE IF student.status = IN_STUDY
        THEN EntryOrFull(student, settlement_month, config)
        ELSE IF student.status = GRADUATED /\ student.graduation_date # None
        THEN IF DateLE(settlement_month, month_start(student.graduation_date))
             THEN EntryOrFull(student, settlement_month, config)
             ELSE <<>>
        ELSE IF student.status = WITHDRAWN /\ student.withdrawal_date # None
        THEN IF DateLE(settlement_month, month_start(student.withdrawal_date))
             THEN EntryOrFull(student, settlement_month, config)
             ELSE <<>>
        ELSE <<>>

GuiLiving(student, settlement_month, config, pay_withdrawal_living) ==
    LET entry_month == month_start(student.first_entry_date)
    IN  IF ~DateLE(entry_month, settlement_month) THEN <<>>
        ELSE IF student.status = IN_STUDY
        THEN EntryOrFull(student, settlement_month, config)
        ELSE IF student.status = GRADUATED /\ student.graduation_date # None
        THEN IF DateLE(settlement_month, month_start(student.graduation_date))
             THEN EntryOrFull(student, settlement_month, config)
             ELSE <<>>
        ELSE IF student.status = WITHDRAWN /\ student.withdrawal_date # None
        THEN LET withdrawal_month == month_start(student.withdrawal_date)
             IN  IF DateLT(settlement_month, withdrawal_month)
                 THEN EntryOrFull(student, settlement_month, config)
                 ELSE IF settlement_month = withdrawal_month
                         /\ pay_withdrawal_living
                 THEN IF same_month(settlement_month, entry_month)
                      THEN add_living(student, settlement_month, config, TRUE,
                                      TRUE, "LIVING_WITHDRAWAL_TOGGLE_PRORATE")
                      ELSE add_living(student, settlement_month, config, FALSE,
                                      TRUE, "LIVING_WITHDRAWAL_TOGGLE")
                 ELSE <<>>
        ELSE <<>>

GuiStudy(student, settlement_month, config) ==
    IF settlement_month.m # 10 THEN <<>>
    ELSE LET oct_first == Date(settlement_month.y, 10, 1)
             qualifies_oct ==
                 IF student.status = IN_STUDY
                 THEN DateLE(student.first_entry_date, oct_first)
                 ELSE IF student.status = GRADUATED
                         /\ student.graduation_date # None
                 THEN DateLE(student.first_entry_date, oct_first)
                      /\ DateLE(oct_first, student.graduation_date)
                 ELSE FALSE
             special_case ==
                 /\ student.status = WITHDRAWN
                 /\ student.withdrawal_date # None
                 /\ student.first_entry_date.y = settlement_month.y
                 /\ DateLT(student.withdrawal_date, oct_first)
                 /\ config.issue_study_if_exit_before_oct_entry_year
         IN  IF qualifies_oct \/ special_case
             THEN << AllowanceRecord(student.student_id, STUDY, oct_first,
                         oct_first,
                         to_money(config, Whole(config.study_allowance_usd),
                                  FALSE),
                         IF qualifies_oct THEN "STUDY_OCT_IN_STUDY"
                         ELSE "STUDY_ENTRY_YEAR_OVERRIDE",
                         [year |-> settlement_month.y,
                          qualifies_month |-> qualifies_oct,
                          entry_month_override |-> FALSE,
                          special_case |-> special_case]) >>
             ELSE <<>>

BaggageRecord(student, settlement_month, config) ==
    AllowanceRecord(student.student_id, BAGGAGE, student.graduation_date,
        student.graduation_date,
        to_money(config, Whole(config.baggage_allowance_usd), FALSE),
        "BAGGAGE_ON_GRADUATION",
        [baggage_toggle |-> TRUE, settlement_month |-> settlement_month])

Warning(student, kind) == [student_id |-> student.student_id, kind |-> kind]

GuiBaggageNoMonthCheck(student, settlement_month, config, pay_baggage) ==
    IF ~pay_baggage THEN [records |-> <<>>, warnings |-> <<>>]
    ELSE IF student.graduation_date = None
    THEN [records |-> <<>>,
          warnings |-> << Warning(student, "missing graduation_date") >>]
    ELSE [records |-> << BaggageRecord(student, settlement_month, config) >>,
          warnings |-> <<>>]

GuiBaggage(student, settlement_month, config, pay_baggage) ==
    IF ~pay_baggage THEN [records |-> <<>>, warnings |-> <<>>]
    ELSE IF student.graduation_date = None
    THEN [records |-> <<>>,
          warnings |-> << Warning(student, "missing graduation_date") >>]
    ELSE IF DateLT(settlement_month, month_start(student.graduation_date))
    THEN [records |-> <<>>,
          warnings |-> << Warning(student, "before graduation month") >>]
    ELSE [records |-> << BaggageRecord(student, settlement_month, config) >>,
          warnings |-> <<>>]

_student_records_any_month(student, settlement_month, config, pay_baggage, pay_withdrawal_living) ==
    LET baggage == GuiBaggage(student, settlement_month, config, pay_baggage)
    IN  [records |->
             (IF student.status = IN_STUDY
              THEN EntryOrFull(student, settlement_month, config)
              ELSE GuiLiving(student, settlement_month, config,
                             pay_withdrawal_living))
             \o GuiStudy(student, settlement_month, config)
             \o baggage.records,
         warnings |-> baggage.warnings]

_student_records(student, settlement_month, config, pay_baggage, pay_withdrawal_living) ==
    LET baggage == GuiBaggage(student, settlement_month, config, pay_baggage)
    IN  [records |->
             GuiLiving(student, settlement_month, config, pay_withdrawal_living)
             \o GuiStudy(student, settlement_month, config)
             \o baggage.records,
         warnings |-> baggage.warnings]

RECURSIVE SettleRosterStoppingAtWarning(_, _, _, _, _)
SettleRosterStoppingAtWarning(students, settlement_month, config, baggage_set, withdrawal_set) ==
    IF students = <<>> THEN [records |-> <<>>, warnings |-> <<>>]
    ELSE LET first == _student_records(Head(students), settlement_month, config,
                          Head(students).student_id \in baggage_set,
                          Head(students).student_id \in withdrawal_set)
             rest == SettleRosterStoppingAtWarning(Tail(students),
                         settlement_month, config, baggage_set, withdrawal_set)
         IN  IF first.warnings # <<>> THEN first
             ELSE [records |-> first.records \o rest.records,
                   warnings |-> rest.warnings]

RECURSIVE SettleRoster(_, _, _, _, _)
SettleRoster(students, settlement_month, config, baggage_set, withdrawal_set) ==
    IF students = <<>> THEN [records |-> <<>>, warnings |-> <<>>]
    ELSE LET first == _student_records(Head(students), settlement_month, config,
                          Head(students).student_id \in baggage_set,
                          Head(students).student_id \in withdrawal_set)
             rest == SettleRoster(Tail(students), settlement_month, config,
                                  baggage_set, withdrawal_set)
         IN  [records |-> first.records \o rest.records,
              warnings |-> first.warnings \o rest.warnings]

compute_monthly_settlement(students, settlement_month, config, baggage_pay_ids, withdrawal_living_ids) ==
    SettleRoster(students, settlement_month, config, baggage_pay_ids,
                 withdrawal_living_ids)

(* ------------------------------------------------------------------ *)
(* Monthly settlement, web evaluator (web/app.py)                      *)
(* ------------------------------------------------------------------ *)
web_add_living(student, settlement_month, config, prorated, metadata, rule_id) ==
    LET monthly_usd == config.living_allowance_by_degree[student.degree_level]
        fraction == IF prorated THEN proration_fraction(student.first_entry_date)
                    ELSE Whole(1)
        usd == [n |-> monthly_usd * fraction.n,
                d |-> fraction.d * config.living_scale]
    IN  << AllowanceRecord(student.student_id, LIVING, settlement_month,
               month_end(settlement_month),
               to_money(config, usd, FALSE), rule_id,
               [monthly_usd |-> monthly_usd, fraction |-> fraction,
                withdrawal_toggle |-> metadata]) >>

WebEntryOrFull(student, settlement_month, config) ==
    IF same_month(settlement_month, month_start(student.first_entry_date))
    THEN web_add_living(student, settlement_month, config, TRUE, FALSE,
                        "LIVING_ENTRY_PRORATE")
    ELSE web_add_living(student, settlement_month, config, FALSE, FALSE,
                        "LIVING_FULL_MONTH")

WebLiving(student, settlement_month, config, pay_withdrawal_living) ==
    LET entry_month == month_start(student.first_entry_date)
    IN  IF ~DateLE(entry_month, settlement_month) THEN <<>>
        ELSE IF student.status = IN_STUDY
        THEN WebEntryOrFull(student, settlement_month, config)
        ELSE IF student.status = GRADUATED
        THEN IF student.graduation_date # None
                /\ DateLE(settlement_month,
                          month_start(student.graduation_date))
             THEN WebEntryOrFull(student, settlement_month, config)
             ELSE <<>>
        ELSE IF student.status = WITHDRAWN /\ student.withdrawal_date # None
        THEN LET withdrawal_month == month_start(student.withdrawal_date)
             IN  IF DateLT(settlement_month, withdrawal_month)
                 THEN WebEntryOrFull(student, settlement_month, config)
                 ELSE IF settlement_month = withdrawal_month
                         /\ pay_withdrawal_living
                 THEN IF same_month(settlement_month, entry_month)
                      THEN web_add_living(student, settlement_month, config,
                               TRUE, TRUE, "LIVING_WITHDRAWAL_TOGGLE_PRORATE")
                      ELSE web_add_living(student, settlement_month, config,
                               FALSE, TRUE, "LIVING_WITHDRAWAL_TOGGLE")
                 ELSE <<>>
        ELSE <<>>

WebStudy(student, settlement_month, config) ==
    IF settlement_month.m # 10 THEN <<>>
    ELSE LET oct_first == Date(settlement_month.y, 10, 1)
             qualifies_oct ==
                 IF student.status = IN_STUDY
                 THEN DateLE(student.first_entry_date, oct_first)
                 ELSE IF student.status = GRADUATED
                         /\ student.graduation_date # None
                 THEN DateLE(student.first_entry_date, oct_first)
                      /\ DateLE(oct_first, student.graduation_date)
                 ELSE FALSE
             special_case ==
                 /\ student.status = WITHDRAWN
                 /\ student.withdrawal_date # None
                 /\ student.first_entry_date.y = settlement_month.y
                 /\ DateLT(student.withdrawal_date, oct_first)
                 /\ config.issue_study_if_exit_before_oct_entry_year
         IN  IF qualifies_oct \/ special_case
             THEN << AllowanceRecord(student.student_id, STUDY, oct_first,
                         oct_first,
                         to_money(config, Whole(config.study_allowance_usd),
                                  FALSE),
                         IF qualifies_oct THEN "STUDY_OCT_IN_STUDY"
                         ELSE "STUDY_ENTRY_YEAR_OVERRIDE",
                         [year |-> settlement_month.y,
                          qualifies_month |-> qualifies_oct,
                          entry_month_override |-> FALSE,
                          special_case |-> special_case]) >>
             ELSE <<>>

WebBaggage(student, settlement_month, config, pay_baggage) ==
    IF ~pay_baggage THEN [records |-> <<>>, warnings |-> <<>>]
    ELSE IF student.graduation_date = None
    THEN [records |-> <<>>,
          warnings |-> << Warning(student, "baggage_missing_graduation") >>]
    ELSE IF DateLT(settlement_month, month_start(student.graduation_date))
    THEN [records |-> <<>>,
          warnings |-> << Warning(student, "baggage_before_graduation") >>]
    ELSE [records |-> << BaggageRecord(student, settlement_month, config) >>,
          warnings |-> <<>>]

_monthly_records_for_student(student, settlement_month, config, pay_baggage, pay_withdrawal_living) ==
    LET baggage == WebBaggage(student, settlement_month, config, pay_baggage)
    IN  [records |->
             WebLiving(student, settlement_month, config, pay_withdrawal_living)
             \o WebStudy(student, settlement_month, config)
             \o baggage.records,
         warnings |-> baggage.warnings]

(* the body of the roster loop of run_settlement_all up to the storage   *)
(* writes: the two toggle checks, then the evaluator                     *)
WebToggleWarnings(student, settlement_date, in_baggage, in_withdrawal, paid) ==
    (IF in_baggage /\ paid
     THEN << Warning(student, "baggage_already_paid") >> ELSE <<>>)
    \o (IF in_withdrawal
           /\ ~(student.withdrawal_date # None
                /\ same_month(month_start(student.withdrawal_date),
                              settlement_date))
        THEN << Warning(student, "withdrawal_toggle_invalid") >> ELSE <<>>)

WebStudentStep(student, settlement_date, config, in_baggage, in_withdrawal, paid) ==
    LET pay_baggage == in_baggage /\ ~paid
        pay_withdrawal_living ==
            in_withdrawal
            /\ student.withdrawal_date # None
            /\ same_month(month_start(student.withdrawal_date), settlement_date)
        res == _monthly_records_for_student(student, settlement_date, config,
                   pay_baggage, pay_withdrawal_living)
    IN  [records |-> res.records,
         warnings |-> WebToggleWarnings(student, settlement_date, in_baggage,
                                        in_withdrawal, paid)
                      \o res.warnings]

(* ------------------------------------------------------------------ *)
(* Inputs of the evaluators                                            *)
(* ------------------------------------------------------------------ *)
LifetimeMonths == {6, 9, 10}
SettleGridMonths == {9, 10, 11}
GridDays == {1, 30}

Dates ==
    {Date(y, m, d) : y \in 2023..MaxYear, m \in LifetimeMonths, d \in GridDays}

(* evaluation dates: a mid-year date and the two sides of the first day   *)
(* of the study month, in every year of the grid                         *)
CalcDates ==
    {x \in Dates : <<x.m, x.d>> \in {<<6, 30>>, <<9, 30>>, <<10, 1>>}}

SettleDates ==
    {Date(y, m, d) : y \in 2023..MaxSettleYear, m \in SettleGridMonths,
                     d \in GridDays}

SettleMonths == {month_start(x) : x \in SettleDates}

StudentIds == {"S1", "S2", "S3"}

(* models.py Student: the lifetime projection's input; __post_init__     *)
(* rejects a Graduated student without graduation date and a graduation  *)
(* date before the entry date                                            *)
Student(sid, degree, entry, grad, status) ==
    [student_id |-> sid, degree_level |-> degree, first_entry_date |-> entry,
     status |-> status, graduation_date |-> grad, withdrawal_date |-> None]

StudentPostInit(st) ==
    /\ ~(st.status = GRADUATED /\ st.graduation_date = None)
    /\ ~(st.graduation_date # None
         /\ DateLT(st.graduation_date, st.first_entry_date))

(* entry dates lie in the first year of the grid; terminal and evaluation *)
(* dates range over the whole grid, before and after the entry date      *)
EntryDates == {x \in Dates : x.y = 2023}

LifetimeStudents ==
    {st \in {Student("S1", dg, e, g, stt) :
                dg \in DegreeLevel, e \in EntryDates, g \in Dates \cup {None},
                stt \in Status} : StudentPostInit(st)}

(* storage/db.py StudentRow: the settlement evaluators' input *)
StudentRow(sid, degree, entry, status, grad, wd) ==
    [student_id |-> sid, degree_level |-> degree, first_entry_date |-> entry,
     status |-> status, graduation_date |-> grad, withdrawal_date |-> wd]

(* the rows Backend._validate_student lets through (gui_web/app.py) *)
_validate_student(row) ==
    /\ (row.status = GRADUATED => row.graduation_date # None)
    /\ (row.status = IN_STUDY => row.graduation_date = None)
    /\ (row.status = WITHDRAWN => row.withdrawal_date # None)
    /\ (row.status # WITHDRAWN => row.withdrawal_date = None)
    /\ ~(row.graduation_date # None
         /\ DateLT(row.graduation_date, row.first_entry_date))
    /\ ~(row.withdrawal_date # None
         /\ DateLT(row.withdrawal_date, row.first_entry_date))

StudentRows ==
    {r \in {StudentRow("S1", MASTER, e, stt, g, w) :
                e \in SettleDates, stt \in Status,
                g \in SettleDates \cup {None}, w \in SettleDates \cup {None}} :
        _validate_student(r)}

NoOutput == [records |-> <<>>, warnings |-> <<>>]

(* ------------------------------------------------------------------ *)
(* State                                                               *)
(* ------------------------------------------------------------------ *)
VARIABLES
    student,                \* the evaluator's student argument
    config,                 \* the AllowanceConfig in force
    calc_date,              \* evaluation date / settlement month
    pay_baggage,            \* the student's id is in the baggage toggle set;
                            \* for a roster run, the baggage toggle set
    pay_withdrawal_living,  \* ... in the withdrawal-month living toggle set;
                            \* for a roster run, that toggle set
    op,                     \* which evaluator produced out ("input": none yet)
    out,                    \* [records, warnings] returned by the evaluator
    students,               \* table students, as list_students returns it
    settlement_runs,        \* table settlement_runs / calculation_runs
    allowance_records,      \* table allowance_records
    baggage_payments,       \* table baggage_payments
    session                 \* per connection: the run in progress

calcVars == <<student, config, calc_date, pay_baggage, pay_withdrawal_living,
              op, out>>

dbVars == <<students, settlement_runs, allowance_records, baggage_payments,
            session>>

vars == <<student, config, calc_date, pay_baggage, pay_withdrawal_living,
          op, out, students, settlement_runs, allowance_records,
          baggage_payments, session>>

Sessions == 1..MaxSessions

Idle == [pc |-> "idle"]

EmptyDb ==
    /\ students = <<>>
    /\ settlement_runs = <<>>
    /\ allowance_records = <<>>
    /\ baggage_payments = {}
    /\ session = [p \in Sessions |-> Idle]

(* ------------------------------------------------------------------ *)
(* Lifetime projection applied to one student                          *)
(* ------------------------------------------------------------------ *)
InitLifetime ==
    /\ student \in LifetimeStudents
    /\ config \in Configs
    /\ calc_date \in CalcDates
    /\ pay_baggage = FALSE
    /\ pay_withdrawal_living = FALSE
    /\ op = "input"
    /\ out = NoOutput
    /\ EmptyDb

CalculateStudentAllowances ==
    /\ op = "input"
    /\ student.withdrawal_date = None
    /\ StudentPostInit(student)
    /\ op' = "lifetime"
    /\ out' = [records |-> calculate_student_allowances(student, config, calc_date),
               warnings |-> <<>>]
    /\ UNCHANGED <<student, config, calc_date, pay_baggage,
                   pay_withdrawal_living>>
    /\ UNCHANGED dbVars

NextLifetime == CalculateStudentAllowances

SpecLifetime == InitLifetime /\ [][NextLifetime]_vars

(* ------------------------------------------------------------------ *)
(* One settlement computation for one student                          *)
(* ------------------------------------------------------------------ *)
(* The evaluators over whole calendar months and the tests' configs    *)
(* ------------------------------------------------------------------ *)
CalendarMonths == {<<2023, 2>>, <<2024, 1>>, <<2024, 2>>, <<2024, 4>>}

CalendarDates ==
    {x \in {Date(ym[1], ym[2], d) : ym \in CalendarMonths, d \in 1..31} :
        x.d <= monthrange(x.y, x.m)}
    \cup {Date(2024, 5, 1)}

(* tests/test_calculations.py test_fx_rounding_applied_per_record and     *)
(* tests/test_gui_settlement.py test_fx_rounding: Bachelor rate 100.005,  *)
(* no study or baggage allowance, FX 7.12345                              *)
TestFxConfig ==
    [DefaultConfig EXCEPT
        !.living_allowance_by_degree =
            (BACHELOR :> 20001 @@ MASTER :> 2 * LivingMasterCents
             @@ PHD :> 2 * LivingPhdCents),
        !.living_scale = 2,
        !.study_allowance_usd = 0,
        !.baggage_allowance_usd = 0,
        !.fx_rate_usd_to_cny = 712345,
        !.fx_scale = 100000]

CalendarConfigs ==
    {[c EXCEPT !.rounding_policy = rp] :
        c \in {DefaultConfig, TestFxConfig}, rp \in RoundingPolicy}

CalendarTerminalDates == {Date(2024, 1, 20), Date(2024, 6, 30)}

CalendarStatuses ==
    {<<IN_STUDY, FALSE, FALSE>>, <<GRADUATED, TRUE, FALSE>>,
     <<WITHDRAWN, FALSE, TRUE>>}

(* a Bachelor student per entry date: in study, or graduated or withdrawn *)
(* on the entry date or later; under the tests' FX config the entry is on *)
(* the 1st                                                                *)
CalendarStudents(c) ==
    {st \in {StudentRow("S1", BACHELOR, e, s[1],
                        IF s[2] THEN IF x = None THEN e ELSE x ELSE None,
                        IF s[3] THEN IF x = None THEN e ELSE x ELSE None) :
                e \in {x \in CalendarDates : c.fx_scale = 100 \/ x.d = 1},
                s \in CalendarStatuses,
                x \in CalendarTerminalDates \cup {None}} :
        _validate_student(st)}

(* ------------------------------------------------------------------ *)
(* the settlement evaluators never read issue_study_if_entry_month, so   *)
(* one value of that flag covers them                                    *)
InitSettle ==
    /\ student \in StudentRows
    /\ config \in {c \in Configs : ~c.issue_study_if_entry_month}
    /\ calc_date \in SettleMonths
    /\ pay_baggage \in BOOLEAN
    /\ pay_withdrawal_living \in BOOLEAN
    /\ op = "input"
    /\ out = NoOutput
    /\ EmptyDb

SettleGui ==
    /\ op = "input"
    /\ calc_date.d = 1
    /\ _validate_student(student)
    /\ op' = "gui"
    /\ out' = compute_monthly_settlement(<<student>>, calc_date, config,
                  IF pay_baggage THEN {student.student_id} ELSE {},
                  IF pay_withdrawal_living THEN {student.student_id} ELSE {})
    /\ UNCHANGED <<student, config, calc_date, pay_baggage,
                   pay_withdrawal_living>>
    /\ UNCHANGED dbVars

SettleWeb(paid) ==
    /\ op = "input"
    /\ calc_date.d = 1
    /\ _validate_student(student)
    /\ op' = IF paid THEN "web_paid" ELSE "web"
    /\ out' = WebStudentStep(student, calc_date, config, pay_baggage,
                             pay_withdrawal_living, paid)
    /\ UNCHANGED <<student, config, calc_date, pay_baggage,
                   pay_withdrawal_living>>
    /\ UNCHANGED dbVars

NextSettle == SettleGui \/ \E paid \in BOOLEAN : SettleWeb(paid)

SpecSettle == InitSettle /\ [][NextSettle]_vars

(* one settlement computation under a configuration whose study month    *)
(* the config screen has set (save_config takes any month)               *)
StudyMonths == {9, 10}

StudyMonthConfigs ==
    {[DefaultConfig EXCEPT !.study_allowance_month = sm] : sm \in StudyMonths}

InitSettleStudyMonth ==
    /\ student \in StudentRows
    /\ config \in StudyMonthConfigs
    /\ calc_date \in SettleMonths
    /\ pay_baggage \in BOOLEAN
    /\ pay_withdrawal_living \in BOOLEAN
    /\ op = "input"
    /\ out = NoOutput
    /\ EmptyDb

SpecSettleStudyMonth == InitSettleStudyMonth /\ [][NextSettle]_vars

InitCalendar ==
    /\ config \in CalendarConfigs
    /\ student \in CalendarStudents(config)
    /\ calc_date \in {month_start(student.first_entry_date), Date(2024, 6, 1)}
    /\ pay_baggage = FALSE
    /\ pay_withdrawal_living \in BOOLEAN
    /\ op = "input"
    /\ out = NoOutput
    /\ EmptyDb

(* every evaluator, lifetime and settlement, over both input spaces; the *)
(* settlement rows are Master students, and so are the lifetime students *)
(* here (SpecLifetime ranges over the degrees)                           *)
InitEval == (InitLifetime /\ student.degree_level = MASTER) \/ InitSettle

NextEval == NextLifetime \/ NextSettle

SpecEval == InitEval /\ [][NextEval]_vars

SpecCalendar == InitCalendar /\ [][NextEval]_vars

(* every evaluator on students who entered inside the study month, under *)
(* every setting of the two study flags                                  *)
EntryMonthStudents ==
    {st \in StudentRows \cup {x \in LifetimeStudents : x.degree_level = MASTER} :
        st.first_entry_date.d > 1}

InitEntryMonth ==
    /\ config \in Configs
    /\ student \in {st \in EntryMonthStudents :
                       st.first_entry_date.m = config.study_allowance_month}
    /\ calc_date \in SettleDates
    /\ pay_baggage = FALSE
    /\ pay_withdrawal_living = FALSE
    /\ op = "input"
    /\ out = NoOutput
    /\ EmptyDb

SpecEntryMonth == InitEntryMonth /\ [][NextEval]_vars

(* ------------------------------------------------------------------ *)
(* Properties of the lifetime projection                               *)
(* ------------------------------------------------------------------ *)
Living == SelectType(out.records, LIVING)

Study == SelectType(out.records, STUDY)

Baggage == SelectType(out.records, BAGGAGE)

MonthIndex(d) == d.y * 12 + d.m - 1

(* the exit date as the specification words it *)
ExitDateOf(st, evaluation_date) ==
    CASE st.status = IN_STUDY -> evaluation_date
      [] st.status # IN_STUDY /\ st.graduation_date # None -> st.graduation_date
      [] OTHER -> evaluation_date

MonthlyRate(st) ==
    CASE st.degree_level = BACHELOR -> LivingBachelorCents
      [] st.degree_level = MASTER -> LivingMasterCents
      [] OTHER -> LivingPhdCents

ProratedCents(st) ==
    [n |-> MonthlyRate(st)
             * (monthrange(st.first_entry_date.y, st.first_entry_date.m)
                - st.first_entry_date.d + 1),
     d |-> monthrange(st.first_entry_date.y, st.first_entry_date.m)]

LivingMonthsAsClaimed(L) ==
    LET first == MonthIndex(student.first_entry_date)
        last == MonthIndex(ExitDateOf(student, calc_date))
    IN  /\ Len(L) = (IF last >= first THEN last - first + 1 ELSE 0)
        /\ \A i \in 1..Len(L) :
              /\ L[i].period_start.d = 1
              /\ MonthIndex(L[i].period_start) = first + i - 1
              /\ L[i].period_end = month_end(L[i].period_start)
              /\ L[i].rule_id =
                     (IF i = 1 THEN "LIVING_ENTRY_PRORATE"
                      ELSE "LIVING_FULL_MONTH")
              /\ (i > 1 => L[i].amount.usd = Whole(MonthlyRate(student)))

YearsUnderTest == 2022..(MaxYear + 1)

StudyDatedAt(S, target) ==
    Cardinality({i \in 1..Len(S) : S[i].period_start = target})

ExitDateDefined(st) == st.status = IN_STUDY \/ st.graduation_date # None

(* C9: with both override flags disabled the lifetime projection emits a   *)
(* Study record for year y exactly when entry_date <= first day of the     *)
(* study month of y <= exit_date, dated at that first-of-month and         *)
(* carrying the flat study rate; entry 2023-09-01 with graduation          *)
(* 2025-06-30 gives exactly the records dated 2023-10-01 and 2024-10-01.   *)
C9_StudyWindow ==
    (/\ op = "lifetime"
     /\ ~config.issue_study_if_entry_month
     /\ ~config.issue_study_if_exit_before_oct_entry_year
     /\ ExitDateDefined(student)) =>
        LET S == Study
            exit == ExitDateOf(student, calc_date)
        IN  /\ \A y \in YearsUnderTest :
                  StudyDatedAt(S, Date(y, config.study_allowance_month, 1)) =
                      (IF DateLE(student.first_entry_date,
                                 Date(y, config.study_allowance_month, 1))
                          /\ DateLE(Date(y, config.study_allowance_month, 1),
                                    exit)
                       THEN 1 ELSE 0)
            /\ \A i \in 1..Len(S) :
                  /\ S[i].period_start.y \in YearsUnderTest
                  /\ S[i].period_start.m = config.study_allowance_month
                  /\ S[i].period_start.d = 1
                  /\ S[i].period_end = S[i].period_start
                  /\ S[i].amount.usd = Whole(StudyCents)
            /\ ((/\ student.first_entry_date = Date(2023, 9, 1)
                 /\ student.status = GRADUATED
                 /\ student.graduation_date = Date(2025, 6, 30)) =>
                   [i \in 1..Len(S) |-> S[i].period_start] =
                       << Date(2023, 10, 1), Date(2024, 10, 1) >>)

C9_Witness ==
    /\ op = "lifetime"
    /\ ~config.issue_study_if_entry_month
    /\ ~config.issue_study_if_exit_before_oct_entry_year
    /\ student.degree_level = PHD
    /\ student.first_entry_date = Date(2023, 9, 1)
    /\ student.status = GRADUATED
    /\ student.graduation_date = Date(2025, 6, 30)
    /\ Len(Study) = 2

(* C10: one evaluation (lifetime projection or one settlement             *)
(* computation) emits at most one Study record per calendar year, and the *)
(* entry-year override never holds in a year in which the standard window *)
(* test or the entry-month override holds.                                *)
C10_OneStudyPerYear ==
    op # "input" =>
        LET S == Study
        IN  /\ \A i, j \in 1..Len(S) :
                  i # j => S[i].period_start.y # S[j].period_start.y
            /\ \A i \in 1..Len(S) :
                  /\ S[i].metadata.year = S[i].period_start.y
                  /\ S[i].metadata.special_case =>
                        /\ ~S[i].metadata.qualifies_month
                        /\ ~S[i].metadata.entry_month_override
                        /\ S[i].rule_id = "STUDY_ENTRY_YEAR_OVERRIDE"
                  /\ (S[i].rule_id = "STUDY_ENTRY_YEAR_OVERRIDE"
                        => S[i].metadata.special_case)

C10_Witness ==
    /\ op = "lifetime"
    /\ config.issue_study_if_entry_month
    /\ config.issue_study_if_exit_before_oct_entry_year
    /\ student.status = WITHDRAWN
    /\ Len(Study) = 1
    /\ Study[1].metadata.special_case
    /\ Study[1].period_start = Date(2023, 10, 1)

(* ------------------------------------------------------------------ *)
(* Properties of one settlement computation                            *)
(* ------------------------------------------------------------------ *)
Settled == op \in {"gui", "web", "web_paid"}

(* the same evaluator on the same inputs with the baggage toggle off *)
WithoutBaggageToggle ==
    IF op = "gui"
    THEN compute_monthly_settlement(<<student>>, calc_date, config, {},
             IF pay_withdrawal_living THEN {student.student_id} ELSE {})
    ELSE WebStudentStep(student, calc_date, config, FALSE,
                        pay_withdrawal_living, op = "web_paid")

BaggageWarnings(ws) ==
    SelectSeq(ws, LAMBDA w : w.kind \in {"before graduation month",
                                         "missing graduation_date",
                                         "baggage_before_graduation",
                                         "baggage_missing_graduation",
                                         "baggage_already_paid"})

OtherWarnings(ws) ==
    SelectSeq(ws, LAMBDA w : w.kind = "withdrawal_toggle_invalid")

(* C5: in settlement mode, baggage toggled for a student in a period      *)
(* before the month of the graduation date emits no Baggage record, adds  *)
(* exactly one warning naming that student, and leaves the student's      *)
(* Living and Study records as they are without the toggle.               *)
C5_BaggageBeforeGraduation ==
    (/\ Settled
     /\ pay_baggage
     /\ student.graduation_date # None
     /\ DateLT(calc_date, month_start(student.graduation_date))) =>
        LET base == WithoutBaggageToggle
        IN  /\ Baggage = <<>>
            /\ out.records = base.records
            /\ BaggageWarnings(base.warnings) = <<>>
            /\ Len(BaggageWarnings(out.warnings)) = 1
            /\ BaggageWarnings(out.warnings)[1].student_id = student.student_id
            /\ OtherWarnings(out.warnings) = OtherWarnings(base.warnings)
            /\ Len(out.warnings) = Len(base.warnings) + 1

C5_Witness ==
    /\ op = "gui"
    /\ pay_baggage
    /\ student.status = GRADUATED
    /\ student.graduation_date = Date(2024, 11, 30)
    /\ calc_date = Date(2024, 10, 1)
    /\ Len(Living) = 1
    /\ Len(Study) = 1
    /\ Len(out.warnings) = 1

(* C6: a Baggage record is emitted only for a student whose status is     *)
(* GRADUATED and whose graduation date is set, in the lifetime projection *)
(* and in settlement mode, whatever toggle is supplied.                   *)
C6_BaggageOnlyGraduated ==
    (op # "input" /\ Baggage # <<>>) =>
        /\ student.status = GRADUATED
        /\ student.graduation_date # None

(* C7: for a WITHDRAWN student the settlement run for period p emits a    *)
(* Living record iff entry month <= p < withdrawal month, or p is the     *)
(* withdrawal month, p >= entry month and the withdrawal toggle is        *)
(* supplied; in the withdrawal month the rule is LIVING_WITHDRAWAL_TOGGLE *)
(* (.._PRORATE in the entry month); after it nothing is emitted.          *)
C7_WithdrawnLiving ==
    (/\ Settled
     /\ student.status = WITHDRAWN
     /\ student.withdrawal_date # None) =>
        LET e == month_start(student.first_entry_date)
            w == month_start(student.withdrawal_date)
            p == calc_date
            L == Living
        IN  /\ Len(L) = (IF \/ (DateLE(e, p) /\ DateLT(p, w))
                            \/ (p = w /\ DateLE(e, p) /\ pay_withdrawal_living)
                         THEN 1 ELSE 0)
            /\ (Len(L) = 1 /\ p = w) =>
                   L[1].rule_id = (IF p = e
                                   THEN "LIVING_WITHDRAWAL_TOGGLE_PRORATE"
                                   ELSE "LIVING_WITHDRAWAL_TOGGLE")
            /\ (Len(L) = 1 /\ p # w) =>
                   L[1].rule_id \in {"LIVING_ENTRY_PRORATE", "LIVING_FULL_MONTH"}
            /\ (DateLT(w, p) => L = <<>>)

C7_Witness ==
    /\ op = "gui"
    /\ student.status = WITHDRAWN
    /\ student.first_entry_date = Date(2023, 9, 30)
    /\ student.withdrawal_date = Date(2024, 10, 30)
    /\ calc_date = Date(2024, 10, 1)
    /\ pay_withdrawal_living
    /\ Len(Living) = 1
    /\ Living[1].rule_id = "LIVING_WITHDRAWAL_TOGGLE"

(* ------------------------------------------------------------------ *)
(* Run ledger (storage/db.py, web/db.py)                               *)
(* ------------------------------------------------------------------ *)
RunRow(run_id, config_version, settlement_month, label) ==
    [run_id |-> run_id, config_version |-> config_version,
     settlement_month |-> settlement_month, label |-> label]

(* create_run: AUTOINCREMENT run id, one commit *)
create_run(runs, config_version, settlement_month, label) ==
    Append(runs, RunRow(Len(runs) + 1, config_version, settlement_month, label))

RecordRow(run_id, settlement_month, record) ==
    [run_id |-> run_id, settlement_month |-> settlement_month,
     student_id |-> record.student_id,
     allowance_type |-> record.allowance_type,
     period_start |-> record.period_start,
     period_end |-> record.period_end,
     amount_cny |-> record.amount.cny,
     rule_id |-> record.rule_id]

(* save_records: executemany INSERT, one commit *)
save_records(table, run_id, settlement_month, records) ==
    table \o [i \in 1..Len(records) |->
                 RecordRow(run_id, settlement_month, records[i])]

is_baggage_paid_from_ledger(payments, table, student_id) ==
    \E e \in payments : e.student_id = student_id

is_baggage_paid(payments, table, student_id) ==
    \/ \E e \in payments : e.student_id = student_id
    \/ \E i \in 1..Len(table) :
           /\ table[i].student_id = student_id
           /\ table[i].allowance_type = BAGGAGE

record_baggage_paid_replacing(payments, student_id, run_id, settlement_month) ==
    {e \in payments : e.student_id # student_id}
    \cup {[student_id |-> student_id, run_id |-> run_id,
           settlement_month |-> settlement_month]}

(* INSERT ... ON CONFLICT(student_id) DO NOTHING, one commit *)
record_baggage_paid(payments, student_id, run_id, settlement_month) ==
    IF \E e \in payments : e.student_id = student_id
    THEN payments
    ELSE payments \cup {[student_id |-> student_id, run_id |-> run_id,
                         settlement_month |-> settlement_month]}

BaggageIds(records) ==
    LET b == SelectType(records, BAGGAGE)
    IN  [i \in 1..Len(b) |-> b[i].student_id]

(* ------------------------------------------------------------------ *)
(* Settlement run entry points, one storage commit per step            *)
(* ------------------------------------------------------------------ *)
StoreEntry == Date(2023, 9, 1)
StoreExit == Date(MaxSettleYear, 10, 30)

StoreRows(sid) ==
    { StudentRow(sid, MASTER, StoreEntry, IN_STUDY, None, None),
      StudentRow(sid, MASTER, StoreEntry, GRADUATED, StoreExit, None) }

StorePeriods == {Date(MaxSettleYear, 9, 1), Date(MaxSettleYear, 10, 1)}

StoreIds == {"S1", "S2"}

InitStore ==
    /\ student = StudentRow("S1", MASTER, StoreEntry, IN_STUDY, None, None)
    /\ config = DefaultConfig
    /\ calc_date = StoreEntry
    /\ pay_baggage = FALSE
    /\ pay_withdrawal_living = FALSE
    /\ op = "input"
    /\ out = NoOutput
    /\ \E r1 \in StoreRows("S1"), r2 \in StoreRows("S2") : students = <<r1, r2>>
    /\ settlement_runs = <<>>
    /\ allowance_records = <<>>
    /\ baggage_payments = {}
    /\ session = [p \in Sessions |-> Idle]

Resting(p) == session[p].pc \in {"idle", "done"}

Done(s) == [pc |-> "done", run_id |-> s.run_id, ledger_calls |-> s.ledger_calls]

(* Backend.run_settlement up to create_run: read the latest config and   *)
(* the roster, compute the settlement, create the run                    *)
GuiWebBegin(p, month, baggage_ids, withdrawal_ids) ==
    /\ Resting(p)
    /\ Len(settlement_runs) < MaxRuns
    /\ settlement_runs' = create_run(settlement_runs, 1, month, "gui_web")
    /\ session' = [session EXCEPT ![p] =
           [pc |-> "gui_save", run_id |-> Len(settlement_runs) + 1,
            month |-> month, ledger_calls |-> <<>>,
            result |-> compute_monthly_settlement(students, month, config,
                           baggage_ids, withdrawal_ids)]]
    /\ UNCHANGED <<students, allowance_records, baggage_payments>>
    /\ UNCHANGED calcVars

(* if result.records: db.save_records(...) *)
GuiWebSave(p) ==
    /\ session[p].pc = "gui_save"
    /\ LET s == session[p]
       IN  IF s.result.records = <<>>
           THEN /\ session' = [session EXCEPT ![p] = Done(s)]
                /\ UNCHANGED allowance_records
           ELSE /\ allowance_records' =
                       save_records(allowance_records, s.run_id, s.month,
                                    s.result.records)
                /\ session' = [session EXCEPT ![p] =
                       IF BaggageIds(s.result.records) = <<>> THEN Done(s)
                       ELSE [pc |-> "gui_ledger", run_id |-> s.run_id,
                             month |-> s.month, ledger_calls |-> <<>>,
                             todo |-> BaggageIds(s.result.records)]]
    /\ UNCHANGED <<students, settlement_runs, baggage_payments>>
    /\ UNCHANGED calcVars

(* for r in result.records: if Baggage: db.record_baggage_paid(...) *)
GuiWebLedger(p) ==
    /\ session[p].pc = "gui_ledger"
    /\ LET s == session[p]
           next == [s EXCEPT !.todo = Tail(s.todo),
                             !.ledger_calls = Append(s.ledger_calls,
                                                     Head(s.todo))]
       IN  /\ baggage_payments' =
                  record_baggage_paid(baggage_payments, Head(s.todo),
                                      s.run_id, s.month)
           /\ session' = [session EXCEPT ![p] =
                  IF next.todo = <<>> THEN Done(next) ELSE next]
    /\ UNCHANGED <<students, settlement_runs, allowance_records>>
    /\ UNCHANGED calcVars

(* run_settlement_all up to the roster loop: read the latest config and  *)
(* the roster, create the run                                            *)
WebBegin(p, month, baggage_pay, withdrawal_living_pay) ==
    /\ Resting(p)
    /\ Len(settlement_runs) < MaxRuns
    /\ settlement_runs' =
           create_run(settlement_runs, 1, month, "monthly_settlement")
    /\ session' = [session EXCEPT ![p] =
           [pc |-> "web_check", run_id |-> Len(settlement_runs) + 1,
            month |-> month, ledger_calls |-> <<>>,
            roster |-> students, idx |-> 1,
            baggage_pay |-> baggage_pay,
            withdrawal_living_pay |-> withdrawal_living_pay,
            records |-> <<>>]]
    /\ UNCHANGED <<students, allowance_records, baggage_payments>>
    /\ UNCHANGED calcVars

(* the loop moves to the next student, or the handler returns *)
WebAdvance(s) ==
    IF s.idx >= Len(s.roster) THEN Done(s)
    ELSE [s EXCEPT !.pc = "web_check", !.idx = s.idx + 1, !.records = <<>>]

(* loop body before the writes: is_baggage_paid, the withdrawal toggle   *)
(* check, _monthly_records_for_student                                   *)
WebCheck(p) ==
    /\ session[p].pc = "web_check"
    /\ session[p].idx <= Len(session[p].roster)
    /\ LET s == session[p]
           st == s.roster[s.idx]
           step == WebStudentStep(st, s.month, config,
                       st.student_id \in s.baggage_pay,
                       st.student_id \in s.withdrawal_living_pay,
                       is_baggage_paid(baggage_payments, allowance_records,
                                       st.student_id))
       IN  session' = [session EXCEPT ![p] =
               IF step.records = <<>> THEN WebAdvance(s)
               ELSE [s EXCEPT !.pc = "web_save", !.records = step.records]]
    /\ UNCHANGED <<students, settlement_runs, allowance_records,
                   baggage_payments>>
    /\ UNCHANGED calcVars

(* if records: db.save_records(...) *)
WebSave(p) ==
    /\ session[p].pc = "web_save"
    /\ LET s == session[p]
       IN  /\ allowance_records' =
                  save_records(allowance_records, s.run_id, s.month, s.records)
           /\ session' = [session EXCEPT ![p] =
                  IF BaggageIds(s.records) = <<>> THEN WebAdvance(s)
                  ELSE [s EXCEPT !.pc = "web_ledger"]]
    /\ UNCHANGED <<students, settlement_runs, baggage_payments>>
    /\ UNCHANGED calcVars

(* if any Baggage record: db.record_baggage_paid(...) *)
WebLedger(p) ==
    /\ session[p].pc = "web_ledger"
    /\ LET s == session[p]
           sid == s.roster[s.idx].student_id
       IN  /\ baggage_payments' =
                  record_baggage_paid(baggage_payments, sid, s.run_id, s.month)
           /\ session' = [session EXCEPT ![p] =
                  WebAdvance([s EXCEPT !.ledger_calls =
                                           Append(s.ledger_calls, sid)])]
    /\ UNCHANGED <<students, settlement_runs, allowance_records>>
    /\ UNCHANGED calcVars

(* the process stops partway through a run; what it committed stays *)
Crash(p) ==
    /\ ~Resting(p)
    /\ session' = [session EXCEPT ![p] = Idle]
    /\ UNCHANGED <<students, settlement_runs, allowance_records,
                   baggage_payments>>
    /\ UNCHANGED calcVars

(* ------------------------------------------------------------------ *)
(* One settlement run over a roster, start to finish                   *)
(* ------------------------------------------------------------------ *)
RosterEntry == Date(2023, 9, 1)
RosterPeriods == {Date(2024, 9, 1), Date(2024, 10, 1)}
RosterExits == {Date(2024, 9, 15), Date(2024, 10, 30)}

RosterLateEntry == Date(2024, 10, 15)

RosterRows(sid) ==
    {StudentRow(sid, MASTER, RosterEntry, IN_STUDY, None, None),
     StudentRow(sid, MASTER, RosterLateEntry, IN_STUDY, None, None)}
    \cup {StudentRow(sid, MASTER, RosterEntry, GRADUATED, x, None) : x \in RosterExits}
    \cup {StudentRow(sid, MASTER, RosterEntry, WITHDRAWN, None, x) : x \in RosterExits}

Rosters ==
    {<<r>> : r \in RosterRows("S1") \cup RosterRows("S2")}
    \cup {<<r1, r2>> : r1 \in RosterRows("S1"), r2 \in RosterRows("S2")}

RosterIds(roster) == {roster[i].student_id : i \in 1..Len(roster)}

(* a ledger entry written by an earlier run *)
PriorPayment(sid) ==
    [student_id |-> sid, run_id |-> 0, settlement_month |-> Date(2024, 8, 1)]

InitRoster ==
    /\ students \in Rosters
    /\ student = students[1]
    /\ config = DefaultConfig
    /\ calc_date \in RosterPeriods
    /\ pay_baggage \in SUBSET RosterIds(students)
    /\ pay_withdrawal_living \in SUBSET RosterIds(students)
    /\ op = "input"
    /\ out = NoOutput
    /\ settlement_runs = <<>>
    /\ allowance_records = <<>>
    /\ baggage_payments \in SUBSET {PriorPayment(sid) : sid \in RosterIds(students)}
    /\ session = [p \in Sessions |-> Idle]

ComputeMonthlySettlementAndSave ==
    /\ op = "input"
    /\ out' = compute_monthly_settlement(students, calc_date, config,
                  pay_baggage, pay_withdrawal_living)
    /\ op' = "gui_roster"
    /\ allowance_records' = save_records(allowance_records, 1, calc_date,
                                         out'.records)
    /\ UNCHANGED <<student, config, calc_date, pay_baggage,
                   pay_withdrawal_living, students, settlement_runs,
                   baggage_payments, session>>

(* compute_monthly_settlement, called any number of times on the loaded  *)
(* roster; it has no storage argument                                     *)
ComputeMonthlySettlement ==
    /\ op \in {"input", "gui_roster"}
    /\ out' = compute_monthly_settlement(students, calc_date, config,
                  pay_baggage, pay_withdrawal_living)
    /\ op' = "gui_roster"
    /\ UNCHANGED <<student, config, calc_date, pay_baggage,
                   pay_withdrawal_living>>
    /\ UNCHANGED dbVars

(* the roster loop of run_settlement_all, with its storage writes *)
RECURSIVE WebRosterLoop(_, _, _)
WebRosterLoop(roster, req, acc) ==
    IF roster = <<>> THEN acc
    ELSE LET st == Head(roster)
             step == WebStudentStep(st, req.month, req.config,
                         st.student_id \in req.baggage_pay,
                         st.student_id \in req.withdrawal_living_pay,
                         is_baggage_paid(acc.payments, acc.table,
                                         st.student_id))
             table == IF step.records = <<>> THEN acc.table
                      ELSE save_records(acc.table, req.run_id, req.month,
                                        step.records)
             payments == IF BaggageIds(step.records) = <<>> THEN acc.payments
                         ELSE record_baggage_paid(acc.payments, st.student_id,
                                                  req.run_id, req.month)
         IN  WebRosterLoop(Tail(roster), req,
                 [records |-> acc.records \o step.records,
                  warnings |-> acc.warnings \o step.warnings,
                  table |-> table, payments |-> payments])

(* run_settlement_all from the request to the redirect *)
RunSettlementAll ==
    /\ op = "input"
    /\ LET res == WebRosterLoop(students,
                      [run_id |-> Len(settlement_runs) + 1, month |-> calc_date,
                       config |-> config, baggage_pay |-> pay_baggage,
                       withdrawal_living_pay |-> pay_withdrawal_living],
                      [records |-> <<>>, warnings |-> <<>>,
                       table |-> allowance_records,
                       payments |-> baggage_payments])
       IN  /\ settlement_runs' =
                  create_run(settlement_runs, 1, calc_date, "monthly_settlement")
           /\ allowance_records' = res.table
           /\ baggage_payments' = res.payments
           /\ out' = [records |-> res.records, warnings |-> res.warnings]
    /\ op' = "web_roster"
    /\ UNCHANGED <<student, config, calc_date, pay_baggage,
                   pay_withdrawal_living, students, session>>

NextRoster == ComputeMonthlySettlement \/ RunSettlementAll

SpecRoster == InitRoster /\ [][NextRoster]_vars

(* the toggle sets a run receives are ticked on the special list, which   *)
(* offers the Graduated students with a graduation date for baggage and  *)
(* the Withdrawn students with a withdrawal date for the withdrawal-     *)
(* month living; the list is loaded before the run, at any earlier time, *)
(* so a student paid since then can still be ticked                      *)
BaggageOffered ==
    {students[i].student_id : i \in {j \in 1..Len(students) :
        students[j].status = GRADUATED /\ students[j].graduation_date # None}}

WithdrawalOffered ==
    {students[i].student_id : i \in {j \in 1..Len(students) :
        students[j].status = WITHDRAWN /\ students[j].withdrawal_date # None}}

OthersResting(p) == \A q \in Sessions \ {p} : Resting(q)

GuiWebRun(p) ==
    \/ \E month \in StorePeriods, b \in SUBSET BaggageOffered, w \in SUBSET WithdrawalOffered :
           GuiWebBegin(p, month, b, w)
    \/ GuiWebSave(p)
    \/ GuiWebLedger(p)

WebRun(p) ==
    \/ \E month \in StorePeriods, b \in SUBSET BaggageOffered, w \in SUBSET WithdrawalOffered :
           WebBegin(p, month, b, w)
    \/ WebCheck(p)
    \/ WebSave(p)
    \/ WebLedger(p)

(* the whole system: both entry points, any interleaving of the sessions *)
Init == InitStore

Next == \E p \in Sessions : GuiWebRun(p) \/ WebRun(p) \/ Crash(p)

Spec == Init /\ [][Next]_vars

(* one run at a time: a run starts only when every other session rests *)
SeqGuiWebBegin(p, month, baggage_ids, withdrawal_ids) ==
    OthersResting(p) /\ GuiWebBegin(p, month, baggage_ids, withdrawal_ids)

SeqWebBegin(p, month, baggage_pay, withdrawal_living_pay) ==
    OthersResting(p) /\ WebBegin(p, month, baggage_pay, withdrawal_living_pay)

NextSeq ==
    \E p \in Sessions :
        \/ \E month \in StorePeriods, b \in SUBSET BaggageOffered, w \in SUBSET WithdrawalOffered :
               SeqGuiWebBegin(p, month, b, w) \/ SeqWebBegin(p, month, b, w)
        \/ GuiWebSave(p)
        \/ GuiWebLedger(p)
        \/ WebCheck(p)
        \/ WebSave(p)
        \/ WebLedger(p)
        \/ Crash(p)

SpecSeq == Init /\ [][NextSeq]_vars

(* concurrent requests to the web application *)
NextWeb == \E p \in Sessions : WebRun(p)

SpecWeb == Init /\ [][NextWeb]_vars

(* ------------------------------------------------------------------ *)
(* Properties of the run ledger                                        *)
(* ------------------------------------------------------------------ *)
BaggageRows(sid) ==
    {i \in 1..Len(allowance_records) :
        /\ allowance_records[i].student_id = sid
        /\ allowance_records[i].allowance_type = BAGGAGE}

(* C1: after any sequence of settlement runs, through any entry point,    *)
(* the persisted allowance records hold at most one Baggage record per    *)
(* student.                                                               *)
C1_OneBaggagePerStudent ==
    \A sid \in StoreIds : Cardinality(BaggageRows(sid)) <= 1

(* C2: when two web settlement runs that toggle baggage for the same      *)
(* unpaid student interleave their storage steps, at most one of the runs *)
(* persists a Baggage record for that student.                            *)
C2_OneRunPaysBaggage ==
    \A sid \in StoreIds :
        Cardinality({allowance_records[i].run_id : i \in BaggageRows(sid)}) <= 1

(* C3: in every storage state, between the commits of a run and after a   *)
(* run that stopped partway included, a persisted Baggage record of a     *)
(* student comes with the baggage-payment ledger entry of that student.   *)
C3_BaggageRecordHasLedgerEntry ==
    \A i \in 1..Len(allowance_records) :
        allowance_records[i].allowance_type = BAGGAGE =>
            \E e \in baggage_payments :
                e.student_id = allowance_records[i].student_id

(* C4: record_baggage_paid is idempotent per student: the ledger holds at *)
(* most one entry per student id, and an entry, once written, keeps the   *)
(* run id and settlement month of the first call.                         *)
C4_LedgerIdempotent ==
    /\ [](\A sid \in StoreIds :
             Cardinality({e \in baggage_payments : e.student_id = sid}) <= 1)
    /\ [][\A e \in baggage_payments : e \in baggage_payments']_vars

(* a second run has called record_baggage_paid for a student the first    *)
(* run had entered in the ledger                                          *)
C4_Witness ==
    \E p \in Sessions, e \in baggage_payments :
        /\ session[p].pc = "done"
        /\ session[p].run_id = 2
        /\ e.run_id = 1
        /\ \E k \in 1..Len(session[p].ledger_calls) :
               session[p].ledger_calls[k] = e.student_id

(* ------------------------------------------------------------------ *)
(* Study overrides, money conversion and proration                     *)
(* ------------------------------------------------------------------ *)
StudyMonthFirstOfEntryYear(st) ==
    Date(st.first_entry_date.y, config.study_allowance_month, 1)

ExitsBeforeStudyMonthOfEntryYear(st, evaluation_date) ==
    /\ st.status \in {GRADUATED, WITHDRAWN}
    /\ ExitDateOf(st, evaluation_date).y = st.first_entry_date.y
    /\ DateLT(ExitDateOf(st, evaluation_date), StudyMonthFirstOfEntryYear(st))

(* C11: in the lifetime projection, a GRADUATED or WITHDRAWN student whose *)
(* exit date lies in the entry year before the first day of the study     *)
(* month gets exactly one Study record, dated the first day of the study  *)
(* month of the entry year with rule STUDY_ENTRY_YEAR_OVERRIDE, when the  *)
(* entry-year override flag is enabled, and no Study record when it is    *)
(* disabled.                                                              *)
C11_EntryYearOverride ==
    (op = "lifetime" /\ ExitsBeforeStudyMonthOfEntryYear(student, calc_date)) =>
        LET S == Study
        IN  IF config.issue_study_if_exit_before_oct_entry_year
            THEN /\ Len(S) = 1
                 /\ S[1].period_start = StudyMonthFirstOfEntryYear(student)
                 /\ S[1].rule_id = "STUDY_ENTRY_YEAR_OVERRIDE"
            ELSE Len(S) = 0

C11_Witness ==
    /\ op = "lifetime"
    /\ student.status = GRADUATED
    /\ student.first_entry_date = Date(2023, 6, 1)
    /\ student.graduation_date = Date(2023, 9, 30)
    /\ calc_date.y > 2023
    /\ config.issue_study_if_exit_before_oct_entry_year
    /\ Len(Study) = 1
    /\ Study[1].rule_id = "STUDY_ENTRY_YEAR_OVERRIDE"

(* C12: settlement mode emits Study records only in a run whose period    *)
(* month equals the configured study month: in that run an IN_STUDY       *)
(* student who entered on or before the first day of that month receives  *)
(* exactly one Study record, and in a run for any other month no student  *)
(* receives a Study record.                                               *)
C12_StudyOnlyInStudyMonth ==
    Settled =>
        LET S == Study
        IN  /\ (calc_date.m # config.study_allowance_month => Len(S) = 0)
            /\ ((/\ calc_date.m = config.study_allowance_month
                 /\ student.status = IN_STUDY
                 /\ DateLE(student.first_entry_date,
                           Date(calc_date.y, config.study_allowance_month, 1)))
                    => Len(S) = 1)

Emitted == op # "input"

(* the local-currency value the conversion gives a USD amount of n/d cents *)
LocalOf(usd) ==
    quantize_amount(usd.n * config.fx_rate_usd_to_cny, usd.d * config.fx_scale)

(* C13: every record emitted by any evaluator, lifetime or settlement,    *)
(* carries a local-currency value that is a whole number of local cents   *)
(* and equals the record's own USD value multiplied by the configured FX  *)
(* rate and rounded half-up to the local quantum.                         *)
C13_LocalFromStoredUsd ==
    Emitted =>
        \A i \in 1..Len(out.records) :
            LET a == out.records[i].amount
            IN  /\ a.cny \in Nat
                /\ a.cny = LocalOf(a.usd)

C13_Witness ==
    /\ op = "lifetime"
    /\ config.rounding_policy = TWO_STEP
    /\ student.status = GRADUATED
    /\ student.first_entry_date.d = 30
    /\ Len(Living) >= 2
    /\ Len(Study) >= 1
    /\ Len(Baggage) = 1
    /\ Living[1].amount.usd.d = 1
    /\ Living[1].amount.cny = LocalOf(Living[1].amount.usd)
    /\ Living[1].amount.cny # LocalOf(ProratedCents(student))

IsProrated(r) ==
    r.rule_id \in {"LIVING_ENTRY_PRORATE", "LIVING_WITHDRAWAL_TOGGLE_PRORATE"}

(* the amount a record is due before any rounding, in USD cents *)
DueUsd(r) ==
    CASE r.allowance_type = STUDY -> Whole(StudyCents)
      [] r.allowance_type = BAGGAGE -> Whole(BaggageCents)
      [] r.allowance_type = LIVING /\ IsProrated(r) -> ProratedCents(student)
      [] OTHER -> Whole(MonthlyRate(student))

(* C14: the USD amount is rounded before conversion exactly when the      *)
(* record is a prorated (entry-month) Living record and the rounding      *)
(* policy is two_step, in the lifetime projection and in every settlement *)
(* path; every other record carries the unrounded amount and its          *)
(* conversion.                                                            *)
C14_RoundEarlyOnlyProratedTwoStep ==
    Emitted =>
        \A i \in 1..Len(out.records) :
            LET r == out.records[i]
                due == DueUsd(r)
            IN  IF IsProrated(r) /\ config.rounding_policy = TWO_STEP
                THEN /\ r.amount.usd = Whole(quantize_amount(due.n, due.d))
                     /\ r.amount.cny =
                            LocalOf(Whole(quantize_amount(due.n, due.d)))
                ELSE /\ RatEq(r.amount.usd, due)
                     /\ r.amount.cny = LocalOf(due)

(* the worked example: Bachelor at 300.00, entry 2024-01-10, graduation *)
(* 2024-01-20, FX 7.10, final_only, evaluated over the student's lifetime *)
ExampleEvaluated ==
    /\ op = "lifetime"
    /\ config = DefaultConfig
    /\ student.degree_level = BACHELOR
    /\ student.status = GRADUATED
    /\ student.first_entry_date = Date(2024, 1, 10)
    /\ student.graduation_date = Date(2024, 1, 20)

ExampleLiving(local_cents) ==
    /\ Len(Living) = 1
    /\ Living[1].period_start = Date(2024, 1, 1)
    /\ Living[1].period_end = Date(2024, 1, 31)
    /\ Living[1].rule_id = "LIVING_ENTRY_PRORATE"
    /\ RatEq(Living[1].amount.usd, [n |-> LivingBachelorCents * 22, d |-> 31])
    /\ Living[1].amount.cny = local_cents

TestCase300 ==
    /\ config.living_scale = 1
    /\ student.first_entry_date = Date(2024, 1, 10)

TestCaseFx ==
    /\ config.living_scale = 2
    /\ student.first_entry_date.d = 1

EntryMonthLiving(r) == r.allowance_type = LIVING /\ r.rule_id = "LIVING_ENTRY_PRORATE"

(* the amounts the tests expect: USD rounded to 212.90, resp. USD 100.01  *)
(* and local 712.42 derived from the rounded USD                          *)
RoundedEarly(r) ==
    /\ TestCase300 => r.amount.usd = Whole(21290) /\ r.amount.cny = 151159
    /\ TestCaseFx => r.amount.usd = Whole(10001) /\ r.amount.cny = 71242

(* the amounts carried without early rounding *)
RoundedOnce(r) ==
    /\ TestCase300 =>
           /\ RatEq(r.amount.usd, [n |-> LivingBachelorCents * 22, d |-> 31])
           /\ r.amount.cny = 151161
    /\ TestCaseFx =>
           /\ RatEq(r.amount.usd, [n |-> 20001, d |-> 2])
           /\ r.amount.cny = 71238

MonthLength(y, m) ==
    28 + ((m + (m \div 8)) % 2) + (2 % m) + 2 * (1 \div m)
       + (IF m = 2 /\ y % 4 = 0 /\ (y % 100 # 0 \/ y % 400 = 0) THEN 1 ELSE 0)

(* C17: the entry-month fraction is (L - d + 1) / L for the month length  *)
(* L of the entry date (28, 29, 30 or 31 days), is positive, at most 1    *)
(* and 1 exactly for entry on the 1st; in every evaluator the Living      *)
(* record of the entry month carries the rate times that fraction and     *)
(* every other Living record the full rate                                *)
C17_ProrationFraction ==
    Emitted =>
        \A i \in 1..Len(Living) :
            LET r == Living[i]
                e == student.first_entry_date
                L == MonthLength(e.y, e.m)
                rate == config.living_allowance_by_degree[student.degree_level]
                part == [n |-> rate * (L - e.d + 1), d |-> L * config.living_scale]
            IN  IF same_month(r.period_start, e)
                THEN /\ IsProrated(r)
                     /\ L \in 28..31
                     /\ r.metadata.fraction = [n |-> L - e.d + 1, d |-> L]
                     /\ r.metadata.fraction.n > 0
                     /\ r.metadata.fraction.n <= r.metadata.fraction.d
                     /\ (r.metadata.fraction.n = r.metadata.fraction.d) <=> (e.d = 1)
                     /\ \/ RatEq(r.amount.usd, part)
                        \/ r.amount.usd = Whole(quantize_amount(part.n, part.d))
                ELSE /\ ~IsProrated(r)
                     /\ RatEq(r.amount.usd, [n |-> rate, d |-> config.living_scale])

C17_Witness ==
    /\ op = "web"
    /\ student.first_entry_date = Date(2024, 2, 29)
    /\ Len(Living) = 1
    /\ Living[1].rule_id = "LIVING_ENTRY_PRORATE"
    /\ Living[1].metadata.fraction = [n |-> 1, d |-> 29]
    /\ RatEq(Living[1].amount.usd, [n |-> LivingBachelorCents, d |-> 29])

(* ------------------------------------------------------------------ *)
(* Roster runs                                                         *)
(* ------------------------------------------------------------------ *)
RosterRun == op \in {"gui_roster", "web_roster"}

RecordsOf(sid) == SelectSeq(out.records, LAMBDA r : r.student_id = sid)

WarningsOf(sid) == SelectSeq(out.warnings, LAMBDA w : w.student_id = sid)

(* the ledger held a baggage payment for the student before the run *)
PaidBefore(sid) == PriorPayment(sid) \in baggage_payments

(* the evaluation of one row on its own: period, config and the          *)
(* student's membership of each toggle set, and for the web run whether  *)
(* the student counts as paid                                            *)
StudentAlone(row, paid) ==
    IF op = "gui_roster"
    THEN _student_records(row, calc_date, config,
             row.student_id \in pay_baggage,
             row.student_id \in pay_withdrawal_living)
    ELSE WebStudentStep(row, calc_date, config,
             row.student_id \in pay_baggage,
             row.student_id \in pay_withdrawal_living, paid)

RECURSIVE SumLen(_, _)
SumLen(f, n) == IF n = 0 THEN 0 ELSE Len(f[n]) + SumLen(f, n - 1)

(* C18 as stated: a student's records in a roster run are those of the   *)
(* student's row, the period, the config and the student's toggle        *)
(* membership alone                                                      *)
C18_AsStated ==
    RosterRun =>
        \A i \in 1..Len(students) :
            RecordsOf(students[i].student_id)
                = StudentAlone(students[i], FALSE).records

(* C18: a student's records and warnings in a roster run are those of    *)
(* the student's row, the period, the config, the student's toggle       *)
(* membership and, in the web run, whether the ledger already held a     *)
(* baggage payment for that student; the rest of the roster and the      *)
(* warnings change nothing, the run returns nothing else, and the web    *)
(* run stores every record under its one run                             *)
C18_RosterIndependence ==
    RosterRun =>
        /\ \A i \in 1..Len(students) :
               LET alone == StudentAlone(students[i],
                                PaidBefore(students[i].student_id))
               IN  /\ RecordsOf(students[i].student_id) = alone.records
                   /\ WarningsOf(students[i].student_id) = alone.warnings
        /\ Len(out.records)
               = SumLen([i \in 1..Len(students) |->
                            RecordsOf(students[i].student_id)], Len(students))
        /\ op = "web_roster" =>
               /\ Len(settlement_runs) = 1
               /\ Len(allowance_records) = Len(out.records)
               /\ \A i \in 1..Len(out.records) :
                      allowance_records[i] = RecordRow(1, calc_date, out.records[i])

C18_Witness ==
    /\ op = "web_roster"
    /\ Len(students) = 2
    /\ students[1].status = IN_STUDY
    /\ students[2].status = GRADUATED
    /\ pay_withdrawal_living = {"S1"}
    /\ pay_baggage = {"S2"}
    /\ ~PaidBefore("S2")
    /\ Len(WarningsOf("S1")) = 1
    /\ Len(RecordsOf("S1")) >= 1
    /\ \E i \in 1..Len(out.records) :
           /\ out.records[i].student_id = "S2"
           /\ out.records[i].allowance_type = BAGGAGE
    /\ Len(allowance_records) = Len(out.records)

WithdrawingInPeriod(row) ==
    /\ row.status = WITHDRAWN
    /\ row.withdrawal_date # None
    /\ same_month(row.withdrawal_date, calc_date)

ToggleLiving(r) ==
    /\ r.allowance_type = LIVING
    /\ r.rule_id \in {"LIVING_WITHDRAWAL_TOGGLE", "LIVING_WITHDRAWAL_TOGGLE_PRORATE"}

BaggageWarningKinds ==
    {"missing graduation_date", "before graduation month", "baggage_already_paid"}

ToggleMisuseHandled(row) ==
    LET sid == row.student_id
        mine == RecordsOf(sid)
    IN  /\ \E j \in 1..Len(out.warnings) :
               /\ out.warnings[j].student_id = sid
               /\ out.warnings[j].kind \notin BaggageWarningKinds
        /\ \A j \in 1..Len(mine) : ~ToggleLiving(mine[j])

(* C19: a withdrawal-month living toggle supplied for a student who is   *)
(* not withdrawing in the period yields a policy warning for that        *)
(* student and no withdrawal-toggle Living record for them               *)
C19_WithdrawalToggleWarning ==
    RosterRun =>
        \A i \in 1..Len(students) :
            (/\ students[i].student_id \in pay_withdrawal_living
             /\ ~WithdrawingInPeriod(students[i]))
                => ToggleMisuseHandled(students[i])

Malformed == [y |-> -1, m |-> 0, d |-> 0]

FormEntry == Date(2023, 9, 1)
FormBefore == Date(2023, 6, 30)
FormAfter == Date(2024, 6, 30)

Parses(raw) == raw \notin {None, Malformed}

NoEnum == "?"

FormData(sid, name, degree, status, entry, grad, wd) ==
    [student_id |-> sid, name |-> name, degree_level |-> degree,
     status |-> status, first_entry_date |-> entry, graduation_date |-> grad,
     withdrawal_date |-> wd]

(* submissions for one id: every status with a graduation and a        *)
(* withdrawal field that is blank, before or after the entry date       *)
WellFormed(sid) ==
    {FormData(sid, "N", MASTER, s, FormEntry, g, w) :
        s \in Status,
        g \in {None, FormBefore, FormAfter},
        w \in {None, FormBefore, FormAfter}}

(* one complete submission per status *)
Complete(sid) ==
    {FormData(sid, "N", MASTER, IN_STUDY, FormEntry, None, None),
     FormData(sid, "N", MASTER, GRADUATED, FormEntry, FormAfter, None),
     FormData(sid, "N", MASTER, WITHDRAWN, FormEntry, None, FormAfter)}

(* a submission with one field that is not an enum value or not a date *)
FieldDefects(f) ==
    {[f EXCEPT !.degree_level = NoEnum], [f EXCEPT !.status = NoEnum],
     [f EXCEPT !.first_entry_date = None],
     [f EXCEPT !.first_entry_date = Malformed],
     [f EXCEPT !.graduation_date = Malformed],
     [f EXCEPT !.withdrawal_date = Malformed]}

(* ... or with a blank id or name, which a web form does not post *)
BlankDefects(f) == {[f EXCEPT !.student_id = ""], [f EXCEPT !.name = ""]}

WebSubmissions ==
    WellFormed("S1") \cup UNION {FieldDefects(f) : f \in Complete("S1")}

Submissions ==
    WebSubmissions \cup UNION {BlankDefects(f) : f \in Complete("S1")}

ErrIf(cond, key) == IF cond THEN <<key>> ELSE <<>>

(* Backend._validate_student: (student | None, errors, warnings) *)
Backend_validate_student(data) ==
    LET degree_level == IF data.degree_level \in DegreeLevel
                        THEN data.degree_level ELSE NoEnum
        status == IF data.status \in Status THEN data.status ELSE NoEnum
        entry_date == IF Parses(data.first_entry_date)
                      THEN data.first_entry_date ELSE None
        graduation_parsed == IF Parses(data.graduation_date)
                             THEN data.graduation_date ELSE None
        withdrawal_parsed == IF Parses(data.withdrawal_date)
                             THEN data.withdrawal_date ELSE None
        graduation_date == IF status = IN_STUDY THEN None
                           ELSE graduation_parsed
        withdrawal_date == IF status # WITHDRAWN THEN None
                           ELSE withdrawal_parsed
        errors ==
            ErrIf(data.student_id = "", "required student_id")
            \o ErrIf(data.name = "", "required name")
            \o ErrIf(degree_level = NoEnum, "required degree")
            \o ErrIf(status = NoEnum, "required status")
            \o ErrIf(data.first_entry_date = Malformed, "invalid_date entry_date")
            \o ErrIf(data.first_entry_date = None, "required entry_date")
            \o ErrIf(data.graduation_date = Malformed,
                     "invalid_date graduation_date")
            \o ErrIf(data.withdrawal_date = Malformed,
                     "invalid_date withdrawal_date")
            \o ErrIf(status = GRADUATED /\ graduation_parsed = None,
                     "graduation_required")
            \o ErrIf(status = WITHDRAWN /\ withdrawal_parsed = None,
                     "withdrawal_required")
            \o ErrIf(entry_date # None /\ graduation_date # None
                     /\ DateLT(graduation_date, entry_date),
                     "entry_before_graduation")
            \o ErrIf(entry_date # None /\ withdrawal_date # None
                     /\ DateLT(withdrawal_date, entry_date),
                     "entry_before_withdrawal")
        warnings == ErrIf(status = IN_STUDY /\ graduation_parsed # None,
                          "hint.graduation")
    IN  [student |->
             IF errors # <<>> \/ degree_level = NoEnum \/ status = NoEnum
                \/ entry_date = None
             THEN None
             ELSE StudentRow(data.student_id, degree_level, entry_date, status,
                             graduation_date, withdrawal_date),
         errors |-> errors, warnings |-> warnings]

(* web/app.py _build_student_from_form: (errors, warnings, student) *)
_build_student_from_form(data) ==
    LET degree == IF data.degree_level \in DegreeLevel
                  THEN data.degree_level ELSE BACHELOR
        status_enum == IF data.status \in Status THEN data.status ELSE IN_STUDY
        (* an unparsable entry date is replaced by today's date *)
        entry_date == IF Parses(data.first_entry_date)
                      THEN data.first_entry_date ELSE FormAfter
        grad_date == IF status_enum # IN_STUDY /\ Parses(data.graduation_date)
                     THEN data.graduation_date ELSE None
        withdrawal == IF status_enum = WITHDRAWN /\ Parses(data.withdrawal_date)
                      THEN data.withdrawal_date ELSE None
        errors ==
            ErrIf(data.degree_level \notin DegreeLevel, "errors.invalid_degree")
            \o ErrIf(data.status \notin Status, "errors.invalid_status")
            \o ErrIf(~Parses(data.first_entry_date), "errors.invalid_entry")
            \o ErrIf(status_enum # IN_STUDY /\ data.graduation_date = Malformed,
                     "errors.invalid_graduation")
            \o ErrIf(status_enum = GRADUATED /\ grad_date = None,
                     "errors.graduation_required")
            \o ErrIf(grad_date # None /\ DateLT(grad_date, entry_date),
                     "errors.graduation_before_entry")
            \o ErrIf(status_enum = WITHDRAWN /\ data.withdrawal_date = Malformed,
                     "errors.invalid_withdrawal")
            \o ErrIf(status_enum = WITHDRAWN /\ withdrawal = None,
                     "errors.withdrawal_required")
        warnings ==
            ErrIf(status_enum = IN_STUDY /\ data.graduation_date # None,
                  "warnings.graduation_ignored")
            \o ErrIf(status_enum # WITHDRAWN /\ data.withdrawal_date # None,
                     "warnings.withdrawal_ignored")
    IN  [student |-> StudentRow(data.student_id, degree, entry_date,
                                status_enum, grad_date, withdrawal),
         errors |-> errors, warnings |-> warnings]

(* list_students orders by student_id *)
IdRank(sid) == CASE sid = "" -> 0 [] sid = "S1" -> 1 [] sid = "S2" -> 2
                 [] OTHER -> 3

HasId(table, sid) == \E i \in 1..Len(table) : table[i].student_id = sid

(* INSERT ... ON CONFLICT(student_id) DO UPDATE, one commit *)
upsert_student(table, row) ==
    IF HasId(table, row.student_id)
    THEN [i \in 1..Len(table) |->
             IF table[i].student_id = row.student_id THEN row ELSE table[i]]
    ELSE SelectSeq(table, LAMBDA r : IdRank(r.student_id) < IdRank(row.student_id))
         \o <<row>>
         \o SelectSeq(table, LAMBDA r : IdRank(r.student_id) > IdRank(row.student_id))

RowErrors(idx, errors) ==
    [i \in 1..Len(errors) |-> [row |-> idx, error |-> errors[i]]]

(* the row loop of Backend.import_students; the first data row is row 2 *)
RECURSIVE ImportLoop(_, _, _)
ImportLoop(rows, idx, acc) ==
    IF rows = <<>> THEN acc
    ELSE LET v == Backend_validate_student(Head(rows))
         IN  ImportLoop(Tail(rows), idx + 1,
                 IF v.errors # <<>>
                 THEN [acc EXCEPT !.errors = @ \o RowErrors(idx, v.errors)]
                 ELSE IF v.student = None
                 THEN [acc EXCEPT !.errors = @ \o RowErrors(idx, <<"required">>)]
                 ELSE [table |-> upsert_student(acc.table, v.student),
                       errors |-> acc.errors,
                       warnings |-> acc.warnings \o RowErrors(idx, v.warnings)])

(* the first check of _parse_students_csv a row fails, as a list *)
WebRowError(data) ==
    LET status_enum == data.status
        grad_date == IF status_enum # IN_STUDY /\ Parses(data.graduation_date)
                     THEN data.graduation_date ELSE None
    IN  IF data.degree_level \notin DegreeLevel THEN <<"errors.invalid_degree">>
        ELSE IF data.status \notin Status THEN <<"errors.invalid_status">>
        ELSE IF ~Parses(data.first_entry_date) THEN <<"errors.invalid_entry">>
        ELSE IF status_enum # IN_STUDY /\ data.graduation_date = Malformed
        THEN <<"errors.invalid_graduation">>
        ELSE IF status_enum = GRADUATED /\ grad_date = None
        THEN <<"errors.graduation_required">>
        ELSE IF status_enum = WITHDRAWN /\ data.withdrawal_date = Malformed
        THEN <<"errors.invalid_withdrawal">>
        ELSE IF status_enum = WITHDRAWN /\ ~Parses(data.withdrawal_date)
        THEN <<"errors.withdrawal_required">>
        ELSE IF grad_date # None /\ DateLT(grad_date, data.first_entry_date)
        THEN <<"errors.graduation_before_entry">>
        ELSE <<>>

WebRowStudent(data) ==
    StudentRow(data.student_id, data.degree_level, data.first_entry_date,
               data.status,
               IF data.status # IN_STUDY /\ Parses(data.graduation_date)
               THEN data.graduation_date ELSE None,
               IF data.status = WITHDRAWN THEN data.withdrawal_date ELSE None)

(* _parse_students_csv: (errors, students) *)
RECURSIVE _parse_students_csv(_, _)
_parse_students_csv(rows, idx) ==
    IF rows = <<>> THEN [errors |-> <<>>, students |-> <<>>]
    ELSE LET rest == _parse_students_csv(Tail(rows), idx + 1)
             err == WebRowError(Head(rows))
         IN  IF err # <<>>
             THEN [errors |-> RowErrors(idx, err) \o rest.errors,
                   students |-> rest.students]
             ELSE [errors |-> rest.errors,
                   students |-> <<WebRowStudent(Head(rows))>> \o rest.students]

RECURSIVE UpsertAll(_, _)
UpsertAll(table, rows) ==
    IF rows = <<>> THEN table
    ELSE UpsertAll(upsert_student(table, Head(rows)), Tail(rows))

(* the rows of an import file: two well-formed, one without the date its *)
(* status requires, one withdrawn before the entry date                  *)
ImportRows(sid) ==
    {FormData(sid, "N", MASTER, IN_STUDY, FormEntry, None, None),
     FormData(sid, "N", MASTER, GRADUATED, FormEntry, FormAfter, None),
     FormData(sid, "N", MASTER, GRADUATED, FormEntry, None, None),
     FormData(sid, "N", MASTER, WITHDRAWN, FormEntry, None, FormBefore)}

ImportFiles == {<<r1, r2>> : r1 \in ImportRows("S1"), r2 \in ImportRows("S2")}

InitStudents ==
    /\ students = <<>>
    /\ student = <<>>
    /\ config = DefaultConfig
    /\ calc_date = FormEntry
    /\ pay_baggage = FALSE
    /\ pay_withdrawal_living = FALSE
    /\ op = "input"
    /\ out = NoOutput
    /\ settlement_runs = <<>>
    /\ allowance_records = <<>>
    /\ baggage_payments = {}
    /\ session = [p \in Sessions |-> Idle]

StudentFrame ==
    UNCHANGED <<config, calc_date, pay_baggage, pay_withdrawal_living,
                settlement_runs, allowance_records, baggage_payments, session>>

(* Backend.save_student *)
SaveStudent(data) ==
    /\ LET v == Backend_validate_student(data)
       IN  IF v.errors # <<>> \/ v.student = None
           THEN /\ out' = [ok |-> FALSE,
                           errors |-> IF v.errors # <<>> THEN v.errors
                                      ELSE <<"required">>,
                           warnings |-> <<>>]
                /\ UNCHANGED students
           ELSE /\ students' = upsert_student(students, v.student)
                /\ out' = [ok |-> TRUE, errors |-> <<>>,
                           warnings |-> v.warnings]
    /\ student' = data
    /\ op' = "save_student"
    /\ StudentFrame

(* Backend.import_students on a file with the expected header *)
ImportStudents(file) ==
    /\ LET res == ImportLoop(file, 2,
                      [table |-> students, errors |-> <<>>, warnings |-> <<>>])
       IN  /\ students' = res.table
           /\ out' = [ok |-> res.errors = <<>>, errors |-> res.errors,
                      warnings |-> res.warnings]
    /\ student' = file
    /\ op' = "import_students"
    /\ StudentFrame

(* web student_create / student_update *)
StudentUpdate(data) ==
    /\ LET v == _build_student_from_form(data)
       IN  IF v.errors # <<>>
           THEN /\ out' = [ok |-> FALSE, errors |-> v.errors,
                           warnings |-> v.warnings]
                /\ UNCHANGED students
           ELSE /\ students' = upsert_student(students, v.student)
                /\ out' = [ok |-> TRUE, errors |-> <<>>,
                           warnings |-> <<>>]
    /\ student' = data
    /\ op' = "student_update"
    /\ StudentFrame

(* web students_import *)
StudentsImport(file) ==
    /\ LET res == _parse_students_csv(file, 2)
       IN  IF res.errors # <<>>
           THEN /\ out' = [ok |-> FALSE, errors |-> res.errors,
                           warnings |-> <<>>]
                /\ UNCHANGED students
           ELSE /\ students' = UpsertAll(students, res.students)
                /\ out' = [ok |-> TRUE, errors |-> <<>>, warnings |-> <<>>]
    /\ student' = file
    /\ op' = "students_import"
    /\ StudentFrame

NextStudents ==
    \/ \E data \in Submissions : SaveStudent(data)
    \/ \E file \in ImportFiles : ImportStudents(file)
    \/ \E data \in WebSubmissions : StudentUpdate(data)
    \/ \E file \in ImportFiles : StudentsImport(file)

SpecStudents == InitStudents /\ [][NextStudents]_vars

(* ------------------------------------------------------------------ *)
(* Stored students                                                     *)
(* ------------------------------------------------------------------ *)
DataModelInvariant(r) ==
    /\ r.status = GRADUATED =>
           /\ r.graduation_date # None
           /\ DateLE(r.first_entry_date, r.graduation_date)
    /\ r.status = WITHDRAWN =>
           /\ r.withdrawal_date # None
           /\ DateLE(r.first_entry_date, r.withdrawal_date)
    /\ r.status = IN_STUDY =>
           /\ r.graduation_date = None
           /\ r.withdrawal_date = None

(* C21: after any sequence of saves and imports through the validating  *)
(* front ends every stored student satisfies the data-model invariants: *)
(* Graduated has a graduation date on or after the entry date,          *)
(* Withdrawn a withdrawal date on or after the entry date, In-study     *)
(* neither date                                                         *)
C21_StoredStudentsValid ==
    \A i \in 1..Len(students) : DataModelInvariant(students[i])

Stored(row) == \E i \in 1..Len(students) : students[i] = row

RowHasError(idx) == \E j \in 1..Len(out.errors) : out.errors[j].row = idx

(* what a front end makes of one row of an import file *)
RowOutcome(data) ==
    IF op = "import_students"
    THEN LET v == Backend_validate_student(data)
         IN  [valid |-> v.errors = <<>>, student |-> v.student]
    ELSE [valid |-> WebRowError(data) = <<>>, student |-> WebRowStudent(data)]

(* C22: after a batch import every row that fails validation has a      *)
(* per-row error message, and every valid row of the same file is       *)
(* stored, whatever the other rows are                                  *)
C22_ImportRowByRow ==
    op \in {"import_students", "students_import"} =>
        \A k \in 1..Len(student) :
            LET row == RowOutcome(student[k])
            IN  IF row.valid
                THEN Stored(row.student) /\ ~RowHasError(k + 1)
                ELSE RowHasError(k + 1)

(* C26: a student stored as Graduated or Withdrawn is never stored      *)
(* again, by a later save or import, with a different status            *)
C26_StatusOneWay ==
    [][\A i \in 1..Len(students) :
           students[i].status \in {GRADUATED, WITHDRAWN} =>
               \A j \in 1..Len(students') :
                   students'[j].student_id = students[i].student_id =>
                       students'[j].status = students[i].status]_vars

(* ------------------------------------------------------------------ *)
(* Configuration versions, backup and restore                          *)
(* (storage/db.py, storage/backup.py, gui_web/app.py)                  *)
(*                                                                     *)
(* The desktop application over one database file.  Here config holds *)
(* table configs, student the AUTOINCREMENT counters of               *)
(* sqlite_sequence, out the archives in the backup directory, session   *)
(* the run_settlement call in progress.                               *)
(* ------------------------------------------------------------------ *)
MaxVersions == 2
MaxBackups == 2

ConfigRow(version, policy_switch) ==
    [version |-> version,
     issue_study_if_exit_before_oct_entry_year |-> policy_switch]

config_row_to_model(row) ==
    [DefaultConfig EXCEPT !.issue_study_if_exit_before_oct_entry_year =
                              row.issue_study_if_exit_before_oct_entry_year]

(* SELECT * FROM configs ORDER BY version DESC LIMIT 1 *)
get_latest_config(configs) ==
    CHOOSE r \in {configs[i] : i \in 1..Len(configs)} :
        \A i \in 1..Len(configs) : configs[i].version <= r.version

Largest(ids) == IF ids = {} THEN 0 ELSE CHOOSE n \in ids : \A k \in ids : k <= n

RunIds(runs) == {runs[i].run_id : i \in 1..Len(runs)}

Versions(configs) == {configs[i].version : i \in 1..Len(configs)}

(* INTEGER PRIMARY KEY AUTOINCREMENT: one more than the largest rowid   *)
(* the table has ever held, which sqlite_sequence keeps across DELETE;  *)
(* without the keyword, one more than the largest rowid now stored      *)
NextRowidWithoutSequence(seq, ids) == Largest(ids) + 1

NextRowid(seq, ids) == Largest(ids \cup {seq}) + 1

(* create_backup writes the students, the latest config version only,   *)
(* every run and every allowance record; the baggage ledger is left out *)
Archive ==
    [students |-> students,
     configs |-> <<get_latest_config(config)>>,
     runs |-> settlement_runs,
     records |-> allowance_records]

AdminRows == {StudentRow("S1", MASTER, StoreEntry, GRADUATED, StoreExit, None)}

AdminPeriod == Date(MaxSettleYear, 10, 1)

(* init_db on a new file: the schema and the default config, version 1 *)
InitAdmin ==
    /\ student = [settlement_runs |-> 0, configs |-> 1]
    /\ config = <<ConfigRow(1, FALSE)>>
    /\ calc_date = AdminPeriod
    /\ pay_baggage = FALSE
    /\ pay_withdrawal_living = FALSE
    /\ op = "input"
    /\ out = {}
    /\ students = <<>>
    /\ settlement_runs = <<>>
    /\ allowance_records = <<>>
    /\ baggage_payments = {}
    /\ session = Idle

AdminResting == session.pc \in {"idle", "done"}

AdminFrame == UNCHANGED <<calc_date, pay_baggage, pay_withdrawal_living>>

(* Backend.run_settlement up to create_run *)
RunSettlementBegin(baggage_ids, withdrawal_ids) ==
    /\ AdminResting
    /\ student.settlement_runs < MaxRuns
    /\ LET cfg_row == get_latest_config(config)
           run_id == NextRowid(student.settlement_runs, RunIds(settlement_runs))
       IN  /\ settlement_runs' =
                  Append(settlement_runs,
                         RunRow(run_id, cfg_row.version, calc_date, "gui_web"))
           /\ student' = [student EXCEPT !.settlement_runs = run_id]
           /\ session' =
                  [pc |-> "gui_save", run_id |-> run_id, month |-> calc_date,
                   result |-> compute_monthly_settlement(students, calc_date,
                                  config_row_to_model(cfg_row),
                                  baggage_ids, withdrawal_ids)]
    /\ op' = "create_run"
    /\ UNCHANGED <<config, out, students, allowance_records, baggage_payments>>
    /\ AdminFrame

(* if result.records: db.save_records(...) *)
RunSettlementSave ==
    /\ session.pc = "gui_save"
    /\ session.result.records # <<>>
    /\ allowance_records' =
           save_records(allowance_records, session.run_id, session.month,
                        session.result.records)
    /\ session' =
           IF BaggageIds(session.result.records) = <<>> THEN [pc |-> "done"]
           ELSE [pc |-> "gui_ledger", run_id |-> session.run_id,
                 month |-> session.month,
                 todo |-> BaggageIds(session.result.records)]
    /\ op' = "save_records"
    /\ UNCHANGED <<student, config, out, students, settlement_runs,
                   baggage_payments>>
    /\ AdminFrame

(* a settlement without records returns after create_run *)
RunSettlementEmpty ==
    /\ session.pc = "gui_save"
    /\ session.result.records = <<>>
    /\ session' = [pc |-> "done"]
    /\ op' = "run_settlement"
    /\ UNCHANGED <<student, config, out, students, settlement_runs,
                   allowance_records, baggage_payments>>
    /\ AdminFrame

(* for r in result.records: if ExcessBaggage: db.record_baggage_paid(...) *)
RunSettlementLedger ==
    /\ session.pc = "gui_ledger"
    /\ baggage_payments' =
           record_baggage_paid(baggage_payments, Head(session.todo),
                               session.run_id, session.month)
    /\ session' =
           IF Tail(session.todo) = <<>> THEN [pc |-> "done"]
           ELSE [session EXCEPT !.todo = Tail(session.todo)]
    /\ op' = "record_baggage_paid"
    /\ UNCHANGED <<student, config, out, students, settlement_runs,
                   allowance_records>>
    /\ AdminFrame

(* the application stops inside run_settlement and is started again;    *)
(* every commit made so far stays                                       *)
Restart ==
    /\ ~AdminResting
    /\ session' = Idle
    /\ op' = "restart"
    /\ UNCHANGED <<student, config, out, students, settlement_runs,
                   allowance_records, baggage_payments>>
    /\ AdminFrame

(* db.save_config: INSERT of a new version, one commit *)
SaveConfig(policy_switch) ==
    /\ AdminResting
    /\ student.configs < MaxVersions
    /\ LET version == NextRowid(student.configs, Versions(config))
       IN  /\ config' = Append(config, ConfigRow(version, policy_switch))
           /\ student' = [student EXCEPT !.configs = version]
    /\ op' = "save_config"
    /\ UNCHANGED <<out, students, settlement_runs, allowance_records,
                   baggage_payments, session>>
    /\ AdminFrame

(* Backend.save_student with a valid form *)
EditStudent(row) ==
    /\ AdminResting
    /\ students' = upsert_student(students, row)
    /\ students' # students
    /\ op' = "save_student"
    /\ UNCHANGED <<student, config, out, settlement_runs, allowance_records,
                   baggage_payments, session>>
    /\ AdminFrame

(* Backend.backup *)
CreateBackup ==
    /\ AdminResting
    /\ Archive \notin out
    /\ Cardinality(out) < MaxBackups
    /\ out' = out \cup {Archive}
    /\ op' = "backup"
    /\ UNCHANGED <<student, config, students, settlement_runs,
                   allowance_records, baggage_payments, session>>
    /\ AdminFrame

(* restore_backup(path, "replace"): the pre-restore backup, the five    *)
(* DELETEs, then the archive's configs, runs, records and students      *)
RestoreReplace(archive) ==
    /\ AdminResting
    /\ Cardinality(out \cup {Archive}) <= MaxBackups
    /\ out' = out \cup {Archive}
    /\ config' = archive.configs
    /\ settlement_runs' = archive.runs
    /\ allowance_records' = archive.records
    /\ baggage_payments' = {}
    /\ students' = archive.students
    /\ student' =
           [settlement_runs |->
                Largest(RunIds(archive.runs) \cup {student.settlement_runs}),
            configs |->
                Largest(Versions(archive.configs) \cup {student.configs})]
    /\ op' = "restore_replace"
    /\ UNCHANGED session
    /\ AdminFrame

RECURSIVE MergeStudents(_, _)
(* _insert_student(conn, s, skip_if_exists=True) for each archived row *)
MergeStudents(table, rows) ==
    IF rows = <<>> THEN table
    ELSE MergeStudents(IF HasId(table, Head(rows).student_id) THEN table
                       ELSE upsert_student(table, Head(rows)),
                       Tail(rows))

(* restore_backup(path, "merge"): the pre-restore backup, then only the *)
(* archived students that are not stored yet                            *)
RestoreMerge(archive) ==
    /\ AdminResting
    /\ Cardinality(out \cup {Archive}) <= MaxBackups
    /\ out' = out \cup {Archive}
    /\ students' = MergeStudents(students, archive.students)
    /\ op' = "restore_merge"
    /\ UNCHANGED <<student, config, settlement_runs, allowance_records,
                   baggage_payments, session>>
    /\ AdminFrame

NextAdmin ==
    \/ \E b \in SUBSET BaggageOffered : RunSettlementBegin(b, {})
    \/ RunSettlementSave
    \/ RunSettlementEmpty
    \/ RunSettlementLedger
    \/ Restart
    \/ SaveConfig(TRUE)
    \/ \E row \in AdminRows : EditStudent(row)
    \/ CreateBackup
    \/ \E archive \in out : RestoreReplace(archive)
    \/ \E archive \in out : RestoreMerge(archive)

SpecAdmin == InitAdmin /\ [][NextAdmin]_vars

(* ------------------------------------------------------------------ *)
(* Properties of the administered database                             *)
(* ------------------------------------------------------------------ *)
IsPrefix(s, t) == Len(s) <= Len(t) /\ SubSeq(t, 1, Len(s)) = s

RecordingOps ==
    {"create_run", "save_records", "record_baggage_paid", "save_config"}

(* every run id and config version the database has held: the current  *)
(* tables and the archives written from it                             *)
EarlierRunIds == RunIds(settlement_runs) \cup UNION {RunIds(a.runs) : a \in out}

EarlierVersions == Versions(config) \cup UNION {Versions(a.configs) : a \in out}

(* C23: create_run, save_records, record_baggage_paid and save_config   *)
(* leave every stored run, allowance record, ledger entry and config    *)
(* version as it was; a new run id is greater than every earlier run    *)
(* id and a new config version greater than every earlier version       *)
C23_AppendOnly ==
    [][op' \in RecordingOps =>
           /\ IsPrefix(settlement_runs, settlement_runs')
           /\ IsPrefix(allowance_records, allowance_records')
           /\ IsPrefix(config, config')
           /\ baggage_payments \subseteq baggage_payments'
           /\ op' = "create_run" =>
                  /\ Len(settlement_runs') = Len(settlement_runs) + 1
                  /\ \A id \in EarlierRunIds :
                         settlement_runs'[Len(settlement_runs')].run_id > id
           /\ op' = "save_config" =>
                  /\ Len(config') = Len(config) + 1
                  /\ \A v \in EarlierVersions :
                         config'[Len(config')].version > v]_vars

C23_Witness ==
    /\ op = "save_records"
    /\ Len(config) = 2
    /\ Len(settlement_runs) = 2
    /\ settlement_runs[2].config_version = 2
    /\ \E i, j \in 1..Len(allowance_records) :
           allowance_records[i].run_id = 1 /\ allowance_records[j].run_id = 2

Paid(sid) == is_baggage_paid(baggage_payments, allowance_records, sid)

PaidAfter(sid) == is_baggage_paid(baggage_payments', allowance_records', sid)

HasBaggageRow(table, sid) ==
    \E i \in 1..Len(table) :
        table[i].student_id = sid /\ table[i].allowance_type = BAGGAGE

(* C27 as stated: once is_baggage_paid is true for a student it is true *)
(* after every later operation, restores included                       *)
C27_AsStated == [][\A sid \in StoreIds : Paid(sid) => PaidAfter(sid)]_vars

(* a replace-mode restore loads the archive's records into the table:   *)
(* the archive held no Baggage record of the student                    *)
RestoredWithout(sid) ==
    op' = "restore_replace" /\ ~HasBaggageRow(allowance_records', sid)

(* C27: once is_baggage_paid is true for a student it stays true after  *)
(* every operation, the window before record_baggage_paid and a         *)
(* replace-mode restore that empties the ledger included, unless the    *)
(* restored archive holds no Baggage record of the student              *)
C27_PaidUnlessOlderArchive ==
    [][\A sid \in StoreIds :
           Paid(sid) /\ ~RestoredWithout(sid) => PaidAfter(sid)]_vars

C27_Witness ==
    /\ op = "restore_replace"
    /\ baggage_payments = {}
    /\ Paid("S1")
    /\ \E a \in out : HasBaggageRow(a.records, "S1")

(* C28: every run's config_version is a stored config version and      *)
(* every allowance record's run_id a stored run                         *)
C28_ReferencesResolve ==
    /\ \A i \in 1..Len(settlement_runs) :
           settlement_runs[i].config_version \in Versions(config)
    /\ \A i \in 1..Len(allowance_records) :
           allowance_records[i].run_id \in RunIds(settlement_runs)

(* ------------------------------------------------------------------ *)
(* Study allowance of terminal students and of the entry month         *)
(* ------------------------------------------------------------------ *)
TerminalDate(st) ==
    IF st.status = GRADUATED THEN st.graduation_date ELSE st.withdrawal_date

InStudyMonthWindow(st) ==
    /\ calc_date = year_month_first(calc_date.y, config.study_allowance_month)
    /\ DateLE(st.first_entry_date, calc_date)
    /\ TerminalDate(st) # None
    /\ DateLE(calc_date, TerminalDate(st))

(* C24: in the settlement run for the study month of year y a Graduated *)
(* or Withdrawn student whose entry date is on or before the first day  *)
(* of that month and whose terminal date is on or after it receives     *)
(* exactly one Study record for y                                       *)
C24_TerminalStudyWindow ==
    /\ op \in {"gui", "web", "web_paid"}
    /\ student.status \in {GRADUATED, WITHDRAWN}
    /\ InStudyMonthWindow(student)
    => /\ Len(Study) = 1
       /\ Study[1].period_start = calc_date

StudyOfYear(year) == SelectSeq(Study, LAMBDA r : r.period_start.y = year)

(* the entry date lies inside the study month and is on or before the   *)
(* exit date; a settlement run is the one for the entry month           *)
EntryMonthCase ==
    /\ student.first_entry_date.m = config.study_allowance_month
    /\ student.first_entry_date.d > 1
    /\ \/ /\ op = "lifetime"
          /\ DateLE(student.first_entry_date, LifetimeExitDate(student, calc_date))
       \/ /\ op \in {"gui", "web", "web_paid"}
          /\ calc_date = month_start(student.first_entry_date)
          /\ student.status # IN_STUDY =>
                 DateLE(student.first_entry_date, TerminalDate(student))

(* C25: for an entry inside the study month the evaluators emit exactly *)
(* one Study record for the entry year, with rule id STUDY_ENTRY_MONTH, *)
(* when issue_study_if_entry_month is set, and none when it is not      *)
C25_EntryMonthStudy ==
    EntryMonthCase =>
        LET s == StudyOfYear(student.first_entry_date.y)
        IN  IF config.issue_study_if_entry_month
            THEN Len(s) = 1 /\ s[1].rule_id = "STUDY_ENTRY_MONTH"
            ELSE s = <<>>

(* ------------------------------------------------------------------ *)
(* Settlement against the lifetime projection                          *)
(* ------------------------------------------------------------------ *)
(* the Living records the lifetime projection, evaluated at the end of  *)
(* the settlement month, holds for that month                           *)
LifetimeLivingOfMonth ==
    SelectSeq(_calculate_living_allowance(student, config, month_end(calc_date)),
              LAMBDA r : r.period_start = calc_date)

SameLiving(a, b) ==
    /\ a.period_start = b.period_start
    /\ a.period_end = b.period_end
    /\ a.rule_id = b.rule_id
    /\ a.amount.usd.n * b.amount.usd.d = b.amount.usd.n * a.amount.usd.d
    /\ a.amount.cny = b.amount.cny

(* C29: for an In-study or Graduated student the settlement run for a   *)
(* month emits a Living record exactly when the lifetime projection     *)
(* holds one for that month, and the two agree on period, rule id, USD  *)
(* amount and local amount, under either rounding policy                *)
C29_SettlementMatchesLifetime ==
    /\ op \in {"gui", "web", "web_paid"}
    /\ student.status \in {IN_STUDY, GRADUATED}
    => /\ Len(Living) = Len(LifetimeLivingOfMonth)
       /\ Len(Living) <= 1
       /\ Len(Living) = 1 => SameLiving(Living[1], LifetimeLivingOfMonth[1])

(* ------------------------------------------------------------------ *)
(* Shape of one settlement computation                                 *)
(* ------------------------------------------------------------------ *)
OfType(sid, typ) == SelectType(RecordsOf(sid), typ)

(* C30: in one settlement computation over a roster each student gets   *)
(* at most one Living, one Study and one Baggage record; every Living   *)
(* record spans the settlement month, first to last day, and none is    *)
(* emitted for a month before the student's entry month                 *)
C30_RecordShape ==
    RosterRun =>
        \A i \in 1..Len(students) :
            LET sid == students[i].student_id
                living == OfType(sid, LIVING)
            IN  /\ Len(living) <= 1
                /\ Len(OfType(sid, STUDY)) <= 1
                /\ Len(OfType(sid, BAGGAGE)) <= 1
                /\ \A j \in 1..Len(living) :
                       /\ living[j].period_start = calc_date
                       /\ living[j].period_end = month_end(calc_date)
                       /\ DateLE(month_start(students[i].first_entry_date),
                                 living[j].period_start)

C30_Witness ==
    /\ op = "gui_roster"
    /\ Len(students) = 2
    /\ calc_date = Date(2024, 9, 1)
    /\ students[1].status = GRADUATED
    /\ Len(OfType("S1", LIVING)) = 1
    /\ Len(OfType("S1", BAGGAGE)) = 1
    /\ students[2].first_entry_date = RosterLateEntry
    /\ RecordsOf("S2") = <<>>

====
